---- MODULE Spec2Model ----
(***************************************************************************)
(* Meeting detection and calendar synchronisation of OpenWhispr:           *)
(*   GoogleCalendarManager (scheduler), MeetingDetectionEngine (arbiter),  *)
(*   MeetingProcessDetector, AudioActivityDetector, GoogleCalendarOAuth.   *)
(* Time is the wall clock in milliseconds, observed every StepMs.          *)
(***************************************************************************)
EXTENDS Integers, FiniteSets, Sequences, TLC

(* ------------------------------ bounds -------------------------------- *)
\* last observed clock value, in steps of StepMs
MaxTicks == 8
\* latest start or end of a stored event, in steps of StepMs
MaxEventTick == 4
\* meeting-starting notifications counted per event
MaxStartNotifs == 2
\* last clock value and event time beside the detection engine, in steps of StepMs
ArbiterTicks == 3
\* authorization flows started
MaxFlows == 2
\* request handlers of one flow awaiting the token endpoint together
MaxExchanges == 2
\* last observed clock value of the authorization flows, in minutes
MaxOAuthTicks == 4
\* last observed clock value of the API calls, in minutes
MaxRefreshTicks == 2
\* last observed clock value of the sync passes, in steps of StepMs
MaxSyncTicks == 1
\* last observed clock value of the start and end timers, in steps of StepMs
MaxTimerTicks == 3
\* intervals the host can hold for the calendar manager together
MaxIntervals == 2
\* last observed clock value beside the focus events, in steps of FocusStepMs
MaxFocusTicks == 3

(* --------------------------- program constants ------------------------ *)
MinuteMs == 60 * 1000
\* granularity at which the model observes the clock
StepMs == 5 * MinuteMs
IMMINENT_THRESHOLD_MS == 5 * 60 * 1000
COOLDOWN_MS == 30 * 60 * 1000
SUSTAINED_THRESHOLD_CHECKS == 3
OAUTH_TIMEOUT_MS == 120000
\* getUpcomingEvents(1440) in scheduleNextMeeting, minutes
LOOKAHEAD_MIN == 1440
\* getUpcomingEvents(15) in getActiveMeetingState, minutes
STATE_WINDOW_MIN == 15
\* getUpcomingEvents(1) in onMeetingStart, minutes
REVALIDATE_MIN == 1

EventIds == {"E1", "E2"}
ProcessKeys == {"zoom"}
AUDIO_KEY == "sustained-audio"

VARIABLES
  now,                \* Date.now()
  events,             \* table calendar_events
  nextMeetingTimer,   \* GoogleCalendarManager.nextMeetingTimer and the event its callback holds
  meetingEndTimer,    \* GoogleCalendarManager.meetingEndTimer
  activeMeeting,      \* GoogleCalendarManager.activeMeeting
  notifiedMeetings,   \* GoogleCalendarManager.notifiedMeetings
  startTimers,        \* the host's pending timeouts whose callback is onMeetingStart
  lastStart,          \* observation: what the latest call of onMeetingStart did
  startNotifs,        \* observation: "Meeting starting now" notifications shown, per event id
  preferences,        \* MeetingDetectionEngine.preferences
  activeDetections,   \* MeetingDetectionEngine.activeDetections: "absent", "open" or "dismissed"
  prompts,            \* per detection id, the subject of its latest Notification that is
                      \* shown and not yet clicked or closed ("none": no such notification)
  pollInterval,       \* MeetingProcessDetector.pollInterval is set
  detectedProcesses,  \* MeetingProcessDetector.detectedProcesses
  dismissedProcesses, \* MeetingProcessDetector.dismissedProcesses
  checkInterval,      \* AudioActivityDetector.checkInterval is set
  consecutiveChecks,  \* AudioActivityDetector.consecutiveChecks
  hasPrompted,        \* AudioActivityDetector.hasPrompted
  lastDismissedAt,    \* AudioActivityDetector.lastDismissedAt
  outcome,            \* observation: what _handleDetection did in the last step, per detection id
  raised,             \* observation: Notifications shown by the last step, per detection id
  seenActive,         \* observation: the detection ids whose app the last step found running
  dismissedNow,       \* observation: the detection ids _dismiss ran for in the last step
  dismissedAt,        \* observation: when a process detection was last dismissed, per key
  recording,          \* observation: subject of the meeting-detected-start-recording of the last step
  tokens,             \* table google_calendar_tokens
  flows,              \* observation: calls of startOAuthFlow so far
  state,              \* startOAuthFlow: state of the flow ("none" before the first flow)
  listener,           \* startOAuthFlow: server is "none", "listening" or "closed"
  closeCalls,         \* observation: calls of server.close() in the flow
  timeoutId,          \* startOAuthFlow: timeoutId, armed until it fires or is cleared
  exchanges,          \* request handlers awaiting exchangeCodeForTokens
  settled,            \* the promise of startOAuthFlow: "idle", "pending", "resolved", "rejected"
  tokensAtStart,      \* observation: the token table when the flow began
  httpStatus,         \* observation: status the last step answered a request with (0: none)
  result,             \* what the promise of startOAuthFlow was settled with ("none" before)
  validRedirect,      \* observation: the flow handled a redirect carrying its state
  codeVerifier,       \* startOAuthFlow: codeVerifier
  codeChallenge,      \* startOAuthFlow: codeChallenge
  authUrl,            \* observation: parameters of the URL given to shell.openExternal
  tokenRequest,       \* observation: body of the flow's latest token-exchange request
  refreshCalls,       \* per _apiGet call: where it is in getValidAccessToken, and the row it read
  apiCall,            \* observation: what the last step of an _apiGet call did
  storeCall,          \* observation: the last call of a method of the token table
  calendars,          \* table google_calendars: is_selected and sync_token per calendar id
  syncCall,           \* the _syncCalendar call in progress and the calendar row it was given
  syncObs,            \* observation: requests, answers and lists of the latest _syncCalendar call
  invalidated,        \* observation: the cursors the API has answered 410 Gone to
  syncInterval,       \* GoogleCalendarManager.syncInterval: an interval of the host, or 0 (null)
  intervals,          \* the host's active intervals whose callback is the periodic sync
  lastFocusSync,      \* GoogleCalendarManager._lastFocusSync
  passes,             \* the calls of syncEvents that await an answer, and who made each
  oauthCall,          \* where a call of startOAuth is: "idle", "flow", "fetch" or "sync"
  mgr                 \* observation: the latest operation of the manager and what it did

schedVars == <<events, nextMeetingTimer, meetingEndTimer, activeMeeting, notifiedMeetings,
               startTimers, startNotifs, lastStart>>
arbVars == <<preferences, activeDetections, prompts, pollInterval, detectedProcesses,
             dismissedProcesses, checkInterval, consecutiveChecks, hasPrompted,
             lastDismissedAt, outcome, raised, seenActive, dismissedNow, dismissedAt,
             recording>>
oauthFlowVars == <<flows, state, listener, closeCalls, timeoutId, exchanges, settled,
                   tokensAtStart, httpStatus, result, validRedirect, codeVerifier,
                   codeChallenge, authUrl, tokenRequest>>
oauthVars == <<tokens, oauthFlowVars>>
refreshVars == <<refreshCalls, apiCall>>
storeVars == <<storeCall>>
syncVars == <<calendars, syncCall, syncObs, invalidated>>
managerVars == <<syncInterval, intervals, lastFocusSync, passes, oauthCall, mgr>>
accountVars == <<oauthVars, refreshVars, storeVars, syncVars, managerVars>>
vars == <<now, schedVars, arbVars, accountVars>>

(* ------------------------------ events -------------------------------- *)
NoEvent == [id |-> "none", start |-> 0, end |-> 0, allDay |-> FALSE, status |-> "none"]

\* Date.now() when observation starts: some positive epoch time
T0 == 1000 * StepMs

EventTimes == {T0 + k * StepMs : k \in 1..MaxEventTick}

\* rows _syncCalendar can upsert: status is never "cancelled" (those are removed)
EventRows ==
  {e \in [id : EventIds, start : EventTimes, end : EventTimes, allDay : BOOLEAN,
          status : {"confirmed", "tentative"}] :
     /\ e.start < e.end
     /\ (e.allDay => e.status = "confirmed")}

\* id is the primary key of calendar_events
Ids(S) == {e.id : e \in S}

Stores ==
  UNION {{{f[i] : i \in D} : f \in {g \in [D -> EventRows] : \A i \in D : g[i].id = i}} :
         D \in SUBSET EventIds}

\* a query for the events that began before now
getActiveEventsBegun ==
  {e \in events : e.start < now /\ e.end > now /\ ~e.allDay /\ e.status = "confirmed"}

getActiveEvents ==
  {e \in events : e.start <= now /\ e.end > now /\ ~e.allDay /\ e.status = "confirmed"}

UpcomingIn(S, windowMinutes) ==
  {e \in S : /\ e.start > now
             /\ e.start <= now + windowMinutes * MinuteMs
             /\ ~e.allDay /\ e.status = "confirmed"}

getUpcomingEvents(windowMinutes) == UpcomingIn(events, windowMinutes)

\* ORDER BY start_time ASC: the rows that may come first
Earliest(S) == {e \in S : \A f \in S : e.start <= f.start}

upsertCalendarEvents(S, rows) == {e \in S : e.id \notin Ids(rows)} \cup rows

removeCalendarEvents(S, ids) == {e \in S : e.id \notin ids}

(* ----------------------------- scheduler ------------------------------ *)
NoTimer == [armed |-> FALSE, ev |-> NoEvent]
NoEndTimer == [armed |-> FALSE, at |-> 0]

\* scheduleNextMeeting: the timer states it can leave, over store S.
\* The branch delay <= 0 needs the clock to move between the query (start > now) and
\* Date.now(); at the model's granularity it is the armed timer firing at once.
scheduleNextMeeting(S, notified) ==
  LET next == {e \in UpcomingIn(S, LOOKAHEAD_MIN) : e.id \notin notified}
  IN  IF next = {} THEN {NoTimer}
      ELSE {[armed |-> TRUE, ev |-> e] : e \in Earliest(next)}

\* a scheduleNextMeeting that leaves the previous timeout pending
clearStartNever(pending, timer) == pending

\* scheduleNextMeeting: clearTimeout(this.nextMeetingTimer); a timeout that has fired
\* is pending no more, and clearing its handle changes nothing
clearStart(pending, timer) == IF timer.armed THEN pending \ {timer.ev} ELSE pending

\* scheduleNextMeeting as a whole, from handle `timer` and the pending timeouts: the
\* handles it can leave and the timeouts then pending
ScheduleResults(pending, timer, S, notified) ==
  {[timer |-> t,
    pending |-> clearStart(pending, timer) \cup (IF t.armed THEN {t.ev} ELSE {})] :
     t \in scheduleNextMeeting(S, notified)}

reschedule(S, notified) ==
  \E r \in ScheduleResults(startTimers, nextMeetingTimer, S, notified) :
    /\ nextMeetingTimer' = r.timer
    /\ startTimers' = r.pending

\* an onMeetingStart that does not look the event up again
stillExistsUnchecked(event) == TRUE

\* an onMeetingStart that looks for a row with the id only
stillExistsById(event) == event.id \in Ids(events)

stillExists(event) ==
  \/ event.id \in Ids(getActiveEvents)
  \/ event.id \in Ids(getUpcomingEvents(REVALIDATE_MIN))

onMeetingStart(event) ==
  IF ~stillExists(event)
  THEN /\ reschedule(events, notifiedMeetings)
       /\ lastStart' = IF event.id \in Ids(events) THEN "filtered" ELSE "removed"
       /\ UNCHANGED <<events, meetingEndTimer, activeMeeting, notifiedMeetings, startNotifs>>
  ELSE /\ activeMeeting' = event
       /\ notifiedMeetings' = notifiedMeetings \cup {event.id}
       /\ startNotifs' = [startNotifs EXCEPT ![event.id] = @ + 1]
       /\ lastStart' = "committed"
       /\ meetingEndTimer' = IF event.end - now > 0
                             THEN [armed |-> TRUE, at |-> event.end]
                             ELSE NoEndTimer
       /\ reschedule(events, notifiedMeetings')
       /\ UNCHANGED events

NotifsBelowCap == \A id \in EventIds : startNotifs[id] < MaxStartNotifs

\* the callback of nextMeetingTimer; a suspended host runs it late
StartTimerFires ==
  /\ nextMeetingTimer.armed
  /\ now >= nextMeetingTimer.ev.start
  /\ NotifsBelowCap
  /\ onMeetingStart(nextMeetingTimer.ev)
  /\ UNCHANGED now

\* onMeetingEnd, the callback of meetingEndTimer
onMeetingEnd ==
  /\ meetingEndTimer.armed
  /\ now >= meetingEndTimer.at
  /\ activeMeeting' = NoEvent
  /\ meetingEndTimer' = NoEndTimer
  /\ reschedule(events, notifiedMeetings)
  /\ UNCHANGED <<now, events, notifiedMeetings, startNotifs, lastStart>>

\* onWakeFromSleep (the synchronous part; the sync it starts is SyncUpserts or SyncRemoves)
onWakeFromSleep ==
  /\ NotifsBelowCap
  /\ IF getActiveEvents # {} /\ activeMeeting = NoEvent
     THEN \E e \in Earliest(getActiveEvents) : onMeetingStart(e)
     ELSE /\ reschedule(events, notifiedMeetings)
          /\ UNCHANGED <<events, meetingEndTimer, activeMeeting, notifiedMeetings,
                         startNotifs, lastStart>>
  /\ UNCHANGED now

\* a sync pass that applied one changed item, then syncEvents' scheduleNextMeeting
SyncUpserts ==
  /\ \E row \in EventRows :
       /\ events' = upsertCalendarEvents(events, {row})
       /\ reschedule(events', notifiedMeetings)
  /\ UNCHANGED <<now, meetingEndTimer, activeMeeting, notifiedMeetings, startNotifs, lastStart>>

SyncRemoves ==
  /\ \E id \in Ids(events) :
       /\ events' = removeCalendarEvents(events, {id})
       /\ reschedule(events', notifiedMeetings)
  /\ UNCHANGED <<now, meetingEndTimer, activeMeeting, notifiedMeetings, startNotifs, lastStart>>

\* the clock moves on; nothing forces a due timer to run first (the host may be suspended)
Advance(maxTick) ==
  /\ now < T0 + maxTick * StepMs
  /\ now' = now + StepMs

\* the scheduler is observed until one step after the last stored event time
TickScheduler ==
  /\ Advance(MaxEventTick + 1)
  /\ UNCHANGED <<schedVars, arbVars, accountVars>>

(* ------------------- detectors and detection engine ------------------- *)
Null == 0 - 1

\* `${source}:${key}`
DetectionId(source, key) == <<source, key>>
AudioId == DetectionId("audio", AUDIO_KEY)
DetIds == {DetectionId("process", k) : k \in ProcessKeys} \cup {AudioId}
NoOutcome == [d \in DetIds |-> "none"]
NoneRaised == [d \in DetIds |-> 0]

\* the fields of the engine and of the two detectors, as one value
Arb ==
  [preferences |-> preferences, activeDetections |-> activeDetections, prompts |-> prompts,
   pollInterval |-> pollInterval, detectedProcesses |-> detectedProcesses,
   dismissedProcesses |-> dismissedProcesses, checkInterval |-> checkInterval,
   consecutiveChecks |-> consecutiveChecks, hasPrompted |-> hasPrompted,
   lastDismissedAt |-> lastDismissedAt, outcome |-> NoOutcome, raised |-> NoneRaised,
   seenActive |-> {}, dismissedNow |-> {}, recording |-> "none"]

SetArb(s) ==
  /\ preferences' = s.preferences
  /\ activeDetections' = s.activeDetections
  /\ prompts' = s.prompts
  /\ pollInterval' = s.pollInterval
  /\ detectedProcesses' = s.detectedProcesses
  /\ dismissedProcesses' = s.dismissedProcesses
  /\ checkInterval' = s.checkInterval
  /\ consecutiveChecks' = s.consecutiveChecks
  /\ hasPrompted' = s.hasPrompted
  /\ lastDismissedAt' = s.lastDismissedAt
  /\ outcome' = s.outcome
  /\ raised' = s.raised
  /\ seenActive' = s.seenActive
  /\ dismissedNow' = s.dismissedNow
  /\ recording' = s.recording

getActiveMeetingState ==
  [activeMeeting |-> activeMeeting,
   activeEvents |-> getActiveEvents,
   upcomingEvents |-> getUpcomingEvents(STATE_WINDOW_MIN)]

\* mutant: only the scheduler's activeMeeting suppresses
CalendarSuppressesMeetingOnly(calendarState) == calendarState.activeMeeting # NoEvent

\* calendarState.activeMeeting !== null || calendarState.activeEvents?.length > 0
CalendarSuppresses(calendarState) ==
  calendarState.activeMeeting # NoEvent \/ calendarState.activeEvents # {}

\* mutant: an event exactly IMMINENT_THRESHOLD_MS away is not imminent
imminentEventStrict(calendarState) ==
  Earliest({evt \in calendarState.upcomingEvents :
              evt.start - now < IMMINENT_THRESHOLD_MS /\ evt.start > now})

\* upcomingEvents.find(...): the rows find can return (first in start order)
imminentEvent(calendarState) ==
  Earliest({evt \in calendarState.upcomingEvents :
              evt.start - now <= IMMINENT_THRESHOLD_MS /\ evt.start > now})

\* what the prompt and its click handler refer to: the imminent event or the detected app
Subjects ==
  IF imminentEvent(getActiveMeetingState) = {} THEN {"generic"}
  ELSE Ids(imminentEvent(getActiveMeetingState))

\* _showPrompt: one Notification, whose handlers hold the subject
showPrompt(s, id, subj) == [s EXCEPT !.prompts[id] = subj, !.raised[id] = @ + 1]

\* mutant: no check of activeDetections.has(detectionId)
handleDetectionNoDedup(s, source, key, subj) ==
  LET id == DetectionId(source, key)
  IN  IF source = "process" /\ ~s.preferences.processDetection
        THEN [s EXCEPT !.outcome[id] = "disabled"]
      ELSE IF source = "audio" /\ ~s.preferences.audioDetection
        THEN [s EXCEPT !.outcome[id] = "disabled"]
      ELSE IF CalendarSuppresses(getActiveMeetingState)
        THEN [s EXCEPT !.outcome[id] = "suppressed"]
      ELSE showPrompt([s EXCEPT !.activeDetections[id] = "open",
                                !.outcome[id] = "created"], id, subj)

handleDetection(s, source, key, subj) ==
  LET id == DetectionId(source, key)
  IN  IF source = "process" /\ ~s.preferences.processDetection
        THEN [s EXCEPT !.outcome[id] = "disabled"]
      ELSE IF source = "audio" /\ ~s.preferences.audioDetection
        THEN [s EXCEPT !.outcome[id] = "disabled"]
      ELSE IF s.activeDetections[id] # "absent"
        THEN [s EXCEPT !.outcome[id] = "dedup"]
      ELSE IF CalendarSuppresses(getActiveMeetingState)
        THEN [s EXCEPT !.outcome[id] = "suppressed"]
      ELSE showPrompt([s EXCEPT !.activeDetections[id] = "open",
                                !.outcome[id] = "created"], id, subj)

\* the listener of meeting-process-ended
processEnded(s, key) ==
  [s EXCEPT !.activeDetections[DetectionId("process", key)] = "absent"]

\* one iteration of the loop of _poll
pollApp(s, processKey, isRunning, subj) ==
  IF isRunning
  THEN LET seen == [s EXCEPT !.seenActive = @ \cup {DetectionId("process", processKey)}]
       IN  IF processKey \notin s.detectedProcesses /\ processKey \notin s.dismissedProcesses
           THEN handleDetection([seen EXCEPT !.detectedProcesses = @ \cup {processKey}],
                                "process", processKey, subj)
           ELSE seen
  ELSE IF processKey \in s.detectedProcesses
       THEN processEnded([s EXCEPT !.detectedProcesses = @ \ {processKey}], processKey)
       ELSE s

RECURSIVE pollApps(_, _, _, _)
pollApps(s, keys, running, subj) ==
  IF keys = {} THEN s
  ELSE LET k == CHOOSE x \in keys : TRUE
       IN  pollApps(pollApp(s, k, k \in running, subj), keys \ {k}, running, subj)

\* MeetingProcessDetector._poll; running: the apps whose check() answers true
poll(s, running, subj) == pollApps(s, ProcessKeys, running, subj)

processStart(s, running, subj) ==
  IF s.pollInterval THEN s
  ELSE [poll(s, running, subj) EXCEPT !.pollInterval = TRUE]

processStop(s) == [s EXCEPT !.pollInterval = FALSE, !.detectedProcesses = {}]

processDismiss(s, processKey) == [s EXCEPT !.dismissedProcesses = @ \cup {processKey}]

\* AudioActivityDetector._reset (audioActiveStart only feeds the payload's durationMs)
reset(s) == [s EXCEPT !.consecutiveChecks = 0, !.hasPrompted = FALSE]

\* a _check that does not look at hasPrompted
checkRepeating(s, active, subj) ==
  IF s.lastDismissedAt # Null /\ now - s.lastDismissedAt < COOLDOWN_MS THEN s
  ELSE IF active
    THEN LET counted == [s EXCEPT !.consecutiveChecks = @ + 1]
         IN  IF counted.consecutiveChecks >= SUSTAINED_THRESHOLD_CHECKS
             THEN handleDetection([counted EXCEPT !.hasPrompted = TRUE],
                                  "audio", AUDIO_KEY, subj)
             ELSE counted
    ELSE [s EXCEPT !.consecutiveChecks = 0]

\* AudioActivityDetector._check; active: the answer of _isMicActive
check(s, active, subj) ==
  IF s.lastDismissedAt # Null /\ now - s.lastDismissedAt < COOLDOWN_MS THEN s
  ELSE IF s.hasPrompted THEN s
  ELSE IF active
    THEN LET counted == [s EXCEPT !.consecutiveChecks = @ + 1]
         IN  IF counted.consecutiveChecks >= SUSTAINED_THRESHOLD_CHECKS
             THEN handleDetection([counted EXCEPT !.hasPrompted = TRUE],
                                  "audio", AUDIO_KEY, subj)
             ELSE counted
    ELSE [s EXCEPT !.consecutiveChecks = 0]

audioStart(s, active, subj) ==
  IF s.checkInterval THEN s
  ELSE [check(s, active, subj) EXCEPT !.checkInterval = TRUE]

audioStop(s) == reset([s EXCEPT !.checkInterval = FALSE])

audioDismiss(s) == reset([s EXCEPT !.lastDismissedAt = now])

\* MeetingDetectionEngine._dismiss
dismiss(s, source, key) ==
  LET noted == [s EXCEPT !.dismissedNow = @ \cup {DetectionId(source, key)}]
  IN  IF source = "process" THEN processDismiss(noted, key)
      ELSE IF source = "audio" THEN audioDismiss(noted)
      ELSE noted

\* detection.dismissed = true, when the entry exists
markDismissed(s, id) ==
  IF s.activeDetections[id] # "absent" THEN [s EXCEPT !.activeDetections[id] = "dismissed"]
  ELSE s

handleUserResponse(s, id, action) ==
  IF action = "dismiss" /\ s.activeDetections[id] # "absent"
  THEN markDismissed(dismiss(s, id[1], id[2]), id)
  ELSE s

setPreferences(s, prefs, running, active, subj) ==
  LET s1 == [s EXCEPT !.preferences = prefs]
      s2 == IF s1.preferences.processDetection THEN processStart(s1, running, subj)
            ELSE processStop(s1)
  IN  IF s2.preferences.audioDetection THEN audioStart(s2, active, subj)
      ELSE audioStop(s2)

\* MeetingDetectionEngine.start
engineStart(s, running, active, subj) ==
  LET s1 == IF s.preferences.processDetection THEN processStart(s, running, subj) ELSE s
  IN  IF s1.preferences.audioDetection THEN audioStart(s1, active, subj) ELSE s1

\* MeetingDetectionEngine.stop
engineStop(s) ==
  [audioStop(processStop(s)) EXCEPT !.activeDetections = [d \in DetIds |-> "absent"]]

\* the parts of the state the detection engine never writes
CalendarFrame == UNCHANGED <<now, schedVars, accountVars>>

\* the interval callback of the process detector
Poll ==
  /\ pollInterval
  /\ \E running \in SUBSET ProcessKeys, subj \in Subjects : SetArb(poll(Arb, running, subj))
  /\ CalendarFrame

\* the interval callback of the audio detector
Check ==
  /\ checkInterval
  /\ \E active \in BOOLEAN, subj \in Subjects : SetArb(check(Arb, active, subj))
  /\ CalendarFrame

SetPreferences ==
  /\ \E prefs \in [processDetection : BOOLEAN, audioDetection : BOOLEAN],
        running \in SUBSET ProcessKeys, active \in BOOLEAN, subj \in Subjects :
       SetArb(setPreferences(Arb, prefs, running, active, subj))
  /\ CalendarFrame

EngineStart ==
  /\ \E running \in SUBSET ProcessKeys, active \in BOOLEAN, subj \in Subjects :
       SetArb(engineStart(Arb, running, active, subj))
  /\ CalendarFrame

EngineStop ==
  /\ SetArb(engineStop(Arb))
  /\ CalendarFrame

\* the overlay answers for a prompt that was raised
HandleUserResponse ==
  /\ \E id \in DetIds, action \in {"start", "dismiss"} :
       /\ activeDetections[id] # "absent"
       /\ SetArb(handleUserResponse(Arb, id, action))
  /\ CalendarFrame

\* notif.on("click")
NotificationClick ==
  /\ \E id \in DetIds :
       /\ prompts[id] # "none"
       /\ SetArb([Arb EXCEPT !.recording = prompts[id], !.prompts[id] = "none"])
  /\ CalendarFrame

\* notif.on("close")
NotificationClose ==
  /\ \E id \in DetIds :
       /\ prompts[id] # "none"
       /\ SetArb(markDismissed(dismiss([Arb EXCEPT !.prompts[id] = "none"], id[1], id[2]), id))
  /\ CalendarFrame

\* a step of the calendar side, seen from the engine
ArbIdle == SetArb(Arb)

\* the observer of process dismissals, and the steps it does not watch
NoteDismissals ==
  dismissedAt' = [k \in ProcessKeys |->
                    IF DetectionId("process", k) \in dismissedNow' THEN now
                    ELSE dismissedAt[k]]
Unwatched == UNCHANGED dismissedAt

TickArbiter ==
  /\ Advance(ArbiterTicks)
  /\ UNCHANGED <<schedVars, accountVars>>
  /\ ArbIdle

\* the clock of the detectors, observed past the cooldown
TickCooldown ==
  /\ Advance(MaxTicks)
  /\ UNCHANGED <<schedVars, accountVars>>
  /\ ArbIdle

(* ------------------------- authorization flow ------------------------- *)

CALENDAR_SCOPE == "openid email https://www.googleapis.com/auth/calendar.readonly"

\* the row of an account connected before the flows that are observed
StoredCredential ==
  [google_email |-> "old@example.com", access_token |-> "at0", refresh_token |-> "rt0",
   expires_at |-> T0 + 3600 * 1000, scope |-> CALENDAR_SCOPE]

\* the rows the table may hold when the model starts: the connected account with a
\* token that expires in an hour, in exactly five minutes, or a millisecond earlier
StoredCredentials ==
  {[StoredCredential EXCEPT !.expires_at = at] :
     at \in {T0 + 3600 * 1000, T0 + 5 * MinuteMs, T0 + 5 * MinuteMs - 1}}

\* values of the state parameter; a request may also carry none ("null")
States == {"s1", "s2"}

\* the query parameters the request handler reads
Requests ==
  [state : States \cup {"null"}, code : {"null", "code"}, error : {"null", "access_denied"}]

\* answers of the token endpoint; email is the claim read from id_token
TokenResponses ==
  [error : BOOLEAN, email : {"user@example.com", "undefined"}, access_token : {"at1"},
   refresh_token : {"rt1", "undefined"}, expires_in : {3600},
   scope : {"undefined", "openid email"}]

\* saveGoogleTokens: DELETE, then INSERT as a second statement outside any transaction;
\* the INSERT throws when a NOT NULL column gets no value, after the DELETE has run
insertFails(row) ==
  "undefined" \in {row.google_email, row.access_token, row.refresh_token}
saveGoogleTokens(row) ==
  IF insertFails(row) THEN [tokens |-> {}, threw |-> TRUE]
  ELSE [tokens |-> {row}, threw |-> FALSE]

\* the code verifiers crypto.randomBytes can give (43 base64url characters, so that
\* slice(0, 43) keeps all of them), and the SHA-256/base64url digest of each
Verifiers == {"v1", "v2"}
sha256Base64url(verifier) == IF verifier = "v1" THEN "h1" ELSE "h2"

NoAuthUrl == [state |-> "none", code_challenge |-> "none", code_challenge_method |-> "none"]
NoTokenRequest == [code |-> "none", code_verifier |-> "none"]

\* a token request that carries the digest in place of the verifier
exchangeCodeForTokensDigest(code, verifier) ==
  [code |-> code, code_verifier |-> sha256Base64url(verifier)]

\* the body exchangeCodeForTokens posts to the token endpoint
exchangeCodeForTokens(code, verifier) == [code |-> code, code_verifier |-> verifier]

\* cleanup of startOAuthFlow: clearTimeout(timeoutId); server.close()
cleanup ==
  /\ timeoutId' = [timeoutId EXCEPT !.armed = FALSE]
  /\ closeCalls' = closeCalls + 1
  /\ listener' = "closed"

\* reject and resolve of the flow's promise; a settled promise ignores them
reject(error) ==
  /\ settled' = IF settled = "pending" THEN "rejected" ELSE settled
  /\ result' = IF settled = "pending" THEN error ELSE result
resolve ==
  /\ settled' = IF settled = "pending" THEN "resolved" ELSE settled
  /\ result' = IF settled = "pending" THEN "success" ELSE result

\* what the authorization flow never writes
OAuthFrame == UNCHANGED <<schedVars, arbVars, refreshVars, storeVars, syncVars, managerVars>>

\* what is fixed when a flow starts
flowVars == <<flows, state, codeVerifier, codeChallenge, authUrl, tokensAtStart>>

\* startOAuthFlow up to the listening server, the opened authorization URL and the
\* armed timeout; a new flow is observed once the handlers of the previous one returned,
\* and only if the observed clock reaches its timeout
StartOAuthFlow ==
  /\ settled # "pending"
  /\ exchanges = 0
  /\ flows < MaxFlows
  /\ now + OAUTH_TIMEOUT_MS <= T0 + MaxOAuthTicks * MinuteMs
  /\ flows' = flows + 1
  /\ codeVerifier' \in Verifiers
  /\ codeChallenge' = sha256Base64url(codeVerifier')
  /\ state' \in States
  /\ authUrl' = [state |-> state', code_challenge |-> codeChallenge',
                 code_challenge_method |-> "S256"]
  /\ tokenRequest' = NoTokenRequest
  /\ listener' = "listening"
  /\ closeCalls' = 0
  /\ timeoutId' = [armed |-> TRUE, at |-> now + OAUTH_TIMEOUT_MS]
  /\ settled' = "pending"
  /\ result' = "none"
  /\ validRedirect' = FALSE
  /\ tokensAtStart' = tokens
  /\ httpStatus' = 0
  /\ UNCHANGED <<now, tokens, exchanges>>
  /\ OAuthFrame

\* a redirect of the provider for this flow: it carries the flow's state and a code
\* (consent) or an error (denial)
isValidRedirect(req) == req.state = state /\ (req.code # "null" \/ req.error # "null")

\* the request handler up to its await (or to its return), for one request
requestHandler(req) ==
  /\ listener = "listening"
  /\ validRedirect' = (validRedirect \/ isValidRedirect(req))
  /\ IF req.error # "null"
     THEN /\ httpStatus' = 200
          /\ cleanup
          /\ reject("OAuth error")
          /\ UNCHANGED <<exchanges, tokenRequest>>
     ELSE IF req.code = "null" \/ req.state # state
     THEN /\ httpStatus' = 400
          /\ UNCHANGED <<timeoutId, closeCalls, listener, settled, result, exchanges,
                         tokenRequest>>
     ELSE /\ exchanges < MaxExchanges
          /\ exchanges' = exchanges + 1
          /\ tokenRequest' = exchangeCodeForTokens(req.code, codeVerifier)
          /\ httpStatus' = 0
          /\ UNCHANGED <<timeoutId, closeCalls, listener, settled, result>>
  /\ UNCHANGED <<now, tokens, flowVars>>
  /\ OAuthFrame

\* a request reaches the loopback listener
RedirectRequest == \E req \in Requests : requestHandler(req)

\* the request handler from the return of exchangeCodeForTokens to its end
ExchangeCompletes ==
  /\ exchanges > 0
  /\ exchanges' = exchanges - 1
  /\ \E threw \in BOOLEAN, tokenData \in TokenResponses :
       IF threw
       THEN /\ httpStatus' = 500
            /\ cleanup
            /\ reject("thrown")
            /\ UNCHANGED tokens
       ELSE IF tokenData.error
       THEN /\ httpStatus' = 200
            /\ cleanup
            /\ reject("Token exchange failed")
            /\ UNCHANGED tokens
       ELSE IF tokenData.email = "undefined"
       THEN /\ httpStatus' = 200
            /\ cleanup
            /\ reject("Could not extract email")
            /\ UNCHANGED tokens
       ELSE LET saved == saveGoogleTokens(
                           [google_email |-> tokenData.email,
                            access_token |-> tokenData.access_token,
                            refresh_token |-> tokenData.refresh_token,
                            expires_at |-> now + tokenData.expires_in * 1000,
                            scope |-> IF tokenData.scope = "undefined" THEN CALENDAR_SCOPE
                                      ELSE tokenData.scope])
            IN /\ tokens' = saved.tokens
               /\ cleanup
               /\ IF saved.threw
                  THEN httpStatus' = 500 /\ reject("thrown")
                  ELSE httpStatus' = 200 /\ resolve
  /\ UNCHANGED <<now, flowVars, validRedirect, tokenRequest>>
  /\ OAuthFrame

\* the callback of the flow's setTimeout
TimeoutFires ==
  /\ timeoutId.armed
  /\ now >= timeoutId.at
  /\ timeoutId' = [timeoutId EXCEPT !.armed = FALSE]
  /\ closeCalls' = closeCalls + 1
  /\ listener' = "closed"
  /\ reject("OAuth flow timed out")
  /\ httpStatus' = 0
  /\ UNCHANGED <<now, tokens, flowVars, exchanges, validRedirect, tokenRequest>>
  /\ OAuthFrame

\* the listener of the server's "error" event
ServerError ==
  /\ listener = "listening"
  /\ cleanup
  /\ reject("server error")
  /\ httpStatus' = 0
  /\ UNCHANGED <<now, tokens, flowVars, exchanges, validRedirect, tokenRequest>>
  /\ OAuthFrame

\* the clock of a flow, observed every minute
TickOAuth ==
  /\ now < T0 + MaxOAuthTicks * MinuteMs
  /\ now' = now + MinuteMs
  /\ httpStatus' = 0
  /\ UNCHANGED <<tokens, flowVars, listener, closeCalls, timeoutId, exchanges, settled,
                 result, validRedirect, tokenRequest>>
  /\ OAuthFrame

(* ------------------------------- sync --------------------------------- *)

CalendarIds == {"C1", "C2"}

\* SELECT * FROM google_calendars returns the rows in the order they were inserted
CalendarOrder == <<"C1", "C2">>

\* rows of google_calendars; summary stands for the three columns the calendar list
\* of the API fills (summary, description, background_color)
Summaries == {"a", "b"}
CalendarRows == [summary : Summaries, is_selected : BOOLEAN, sync_token : {"null", "t0"}]

\* the calendars of a connected account after a sync stored a cursor
StoredCalendars ==
  [c \in {"C1"} |-> [summary |-> "a", is_selected |-> TRUE, sync_token |-> "t0"]]

\* the calendar list of the account, as fetchCalendars maps it
StoredCalendarList == [id \in DOMAIN StoredCalendars |-> StoredCalendars[id].summary]

\* the cursors the API issues after the stored one
FreshTokens == {"t1", "t2"}

SEVEN_DAYS == 7 * 24 * 60 * 60 * 1000

\* the parameters of an events request that differ between the two kinds
NoRequest == [syncToken |-> "none", timeMin |-> Null, timeMax |-> Null, orderBy |-> FALSE]
fullRequest(t) == [syncToken |-> "none", timeMin |-> t, timeMax |-> t + SEVEN_DAYS,
                   orderBy |-> TRUE]
\* a request that sets syncToken and keeps the window and the ordering
incrementalRequestWindowed(token) == [fullRequest(now) EXCEPT !.syncToken = token]

incrementalRequest(token) == [NoRequest EXCEPT !.syncToken = token]

\* the items of an answer: status and start.dateTime may be missing
ItemStatuses == {"cancelled", "confirmed", "tentative", "undefined"}
Items ==
  {[id |-> id, status |-> st, timed |-> timed,
    start |-> T0 + (IF id = "E1" THEN 1 ELSE 2) * StepMs,
    end |-> T0 + (IF id = "E1" THEN 2 ELSE 3) * StepMs] :
     id \in EventIds, st \in ItemStatuses, timed \in BOOLEAN}
ItemLists ==
  {<<>>} \cup {<<a>> : a \in Items}
         \cup {pair \in {<<a, b>> : a \in Items, b \in Items} :
                 pair[1].id = "E1" /\ pair[2].id = "E2"}

\* answers to an events request: 200 with data, 410 Gone, or any other failure of
\* _apiGet (500); _apiGet rejects with the status alone, so a failure carries no data
Responses ==
  [status : {200}, items : ItemLists, nextSyncToken : FreshTokens \cup {"undefined"}]
    \cup [status : {410, 500}, items : {<<>>}, nextSyncToken : {"undefined"}]

\* _syncCalendar: the row pushed to toUpsert for an item
toRow(item) ==
  [id |-> item.id, start |-> item.start, end |-> item.end, allDay |-> ~item.timed,
   status |-> IF item.status = "undefined" THEN "confirmed" ELSE item.status]

\* _syncCalendar: the loop that fills toUpsert and toRemove
RECURSIVE partitionKeepAll(_)
partitionKeepAll(items) ==
  IF items = <<>> THEN [toUpsert |-> <<>>, toRemove |-> <<>>]
  ELSE LET rest == partitionKeepAll(Tail(items))
           item == Head(items)
       IN IF item.status = "cancelled"
          THEN [toUpsert |-> <<toRow(item)>> \o rest.toUpsert,
                toRemove |-> <<item.id>> \o rest.toRemove]
          ELSE [rest EXCEPT !.toUpsert = <<toRow(item)>> \o rest.toUpsert]
RECURSIVE partition(_)
partition(items) ==
  IF items = <<>> THEN [toUpsert |-> <<>>, toRemove |-> <<>>]
  ELSE LET rest == partition(Tail(items))
           item == Head(items)
       IN IF item.status = "cancelled"
          THEN [rest EXCEPT !.toRemove = <<item.id>> \o rest.toRemove]
          ELSE [rest EXCEPT !.toUpsert = <<toRow(item)>> \o rest.toUpsert]

Range(seq) == {seq[i] : i \in 1..Len(seq)}

\* _syncCalendar after the answer: the two lists applied to the event table
applyLists(S, lists) ==
  removeCalendarEvents(upsertCalendarEvents(S, Range(lists.toUpsert)),
                       Range(lists.toRemove))

\* a _syncCalendar that stores no cursor
storeCursorNever(cals, id, nextSyncToken) == cals

\* updateCalendarSyncToken after `if (data.nextSyncToken)`
storeCursor(cals, id, nextSyncToken) ==
  IF nextSyncToken = "undefined" \/ id \notin DOMAIN cals THEN cals
  ELSE [cals EXCEPT ![id].sync_token = nextSyncToken]

NotSyncing == [phase |-> "idle", id |-> "none", sync_token |-> "null", queue |-> <<>>]

\* requests .. toRemove: the _syncCalendar call that ran last; selected .. rescheduled:
\* the syncEvents pass that ran last; wake: what the onWakeFromSleep that started that
\* pass did first ("started" a meeting or "scheduled" only)
NoSyncObs ==
  [requests |-> 0, request |-> NoRequest, gone |-> FALSE, outcome |-> "none",
   status |-> 0, nextSyncToken |-> "none",
   items |-> <<>>, toUpsert |-> <<>>, toRemove |-> <<>>,
   selected |-> {}, attempted |-> {}, failed |-> {}, pass |-> "none",
   broadcast |-> FALSE, rescheduled |-> FALSE, wake |-> "none"]

SyncFrame ==
  UNCHANGED <<meetingEndTimer, activeMeeting, notifiedMeetings, startNotifs, lastStart, arbVars,
              oauthVars, refreshVars, storeVars, managerVars>>

\* getSelectedCalendars: the selected rows, as the array syncEvents iterates
getSelectedCalendars(cals) ==
  LET selected(id) == id \in DOMAIN cals /\ cals[id].is_selected
      ids == SelectSeq(CalendarOrder, selected)
  IN  [i \in 1..Len(ids) |-> [id |-> ids[i], sync_token |-> cals[ids[i]].sync_token]]

\* _syncCalendar(calendar) up to its first request; queue: the rows syncEvents has left
beginCall(calendar, queue) ==
  [phase |-> IF calendar.sync_token # "null" THEN "incremental" ELSE "full",
   id |-> calendar.id, sync_token |-> calendar.sync_token, queue |-> queue]

noteCall(obs, calendar) ==
  [obs EXCEPT !.requests = 1,
              !.request = IF calendar.sync_token # "null"
                          THEN incrementalRequest(calendar.sync_token)
                          ELSE fullRequest(now),
              !.gone = FALSE,
              !.attempted = @ \cup {calendar.id}]

\* syncEvents up to its first await, over calendar table cals: it returns at once when
\* no calendar is selected, else it calls _syncCalendar for the first selected row
startPass(cals) ==
  LET selectedCalendars == getSelectedCalendars(cals)
  IN  IF selectedCalendars = <<>>
      THEN [call |-> NotSyncing, obs |-> [NoSyncObs EXCEPT !.pass = "returned"]]
      ELSE [call |-> beginCall(Head(selectedCalendars), Tail(selectedCalendars)),
            obs |-> noteCall([NoSyncObs EXCEPT
                                !.outcome = "running", !.pass = "running",
                                !.selected = {c.id : c \in Range(selectedCalendars)}],
                             Head(selectedCalendars))]

\* a call of syncEvents while no pass is running
SyncEvents ==
  /\ syncCall.phase = "idle"
  /\ syncCall' = startPass(calendars).call
  /\ syncObs' = startPass(calendars).obs
  /\ UNCHANGED <<now, events, nextMeetingTimer, startTimers, calendars, invalidated>>
  /\ SyncFrame

\* the statement of _syncCalendar at which the database throws ("none": it does not)
Faults == {"none", "upsert", "remove", "cursor"}

\* a _syncCalendar that stores the cursor before it applies the lists
applyAnswerCursorFirst(S, cals, id, resp, fault) ==
  LET lists == partition(resp.items)
      upserted == upsertCalendarEvents(S, Range(lists.toUpsert))
      stored == storeCursor(cals, id, resp.nextSyncToken)
  IN  IF fault = "upsert" THEN [events |-> S, calendars |-> stored, threw |-> TRUE]
      ELSE IF fault = "remove"
        THEN [events |-> upserted, calendars |-> stored, threw |-> TRUE]
      ELSE [events |-> applyLists(S, lists), calendars |-> stored, threw |-> fault # "none"]

\* _syncCalendar after a 200 answer: upsertCalendarEvents, removeCalendarEvents,
\* updateCalendarSyncToken in this order, up to the statement that throws
applyAnswer(S, cals, id, resp, fault) ==
  LET lists == partition(resp.items)
      upserted == upsertCalendarEvents(S, Range(lists.toUpsert))
  IN  IF fault = "upsert" THEN [events |-> S, calendars |-> cals, threw |-> TRUE]
      ELSE IF fault = "remove"
        THEN [events |-> upserted, calendars |-> cals, threw |-> TRUE]
      ELSE IF fault = "cursor"
        THEN [events |-> applyLists(S, lists), calendars |-> cals, threw |-> TRUE]
      ELSE [events |-> applyLists(S, lists),
            calendars |-> storeCursor(cals, id, resp.nextSyncToken), threw |-> FALSE]

\* a statement can throw only if it runs
faultRuns(resp, fault) ==
  LET lists == partition(resp.items)
  IN  /\ fault = "upsert" => resp.status = 200 /\ lists.toUpsert # <<>>
      /\ fault = "remove" => resp.status = 200 /\ lists.toRemove # <<>>
      /\ fault = "cursor" => resp.status = 200 /\ resp.nextSyncToken # "undefined"

\* a syncEvents without the try/catch around _syncCalendar
endCallAborting(obs) ==
  IF obs.outcome = "threw"
  THEN /\ syncCall' = NotSyncing
       /\ syncObs' = [obs EXCEPT !.pass = "threw"]
       /\ UNCHANGED <<nextMeetingTimer, startTimers>>
  ELSE IF syncCall.queue # <<>>
  THEN /\ syncCall' = beginCall(Head(syncCall.queue), Tail(syncCall.queue))
       /\ syncObs' = noteCall(obs, Head(syncCall.queue))
       /\ UNCHANGED <<nextMeetingTimer, startTimers>>
  ELSE /\ syncCall' = NotSyncing
       /\ syncObs' = [obs EXCEPT !.pass = "returned", !.broadcast = TRUE,
                                 !.rescheduled = TRUE]
       /\ reschedule(events', notifiedMeetings)

\* syncEvents after _syncCalendar returned or threw (obs: what the call did): the next
\* selected calendar, or after the last one the broadcast and scheduleNextMeeting
endCall(obs) ==
  IF syncCall.queue # <<>>
  THEN /\ syncCall' = beginCall(Head(syncCall.queue), Tail(syncCall.queue))
       /\ syncObs' = noteCall(obs, Head(syncCall.queue))
       /\ UNCHANGED <<nextMeetingTimer, startTimers>>
  ELSE /\ syncCall' = NotSyncing
       /\ syncObs' = [obs EXCEPT !.pass = "returned", !.broadcast = TRUE,
                                 !.rescheduled = TRUE]
       /\ reschedule(events', notifiedMeetings)

\* _syncCalendar from an answer of _apiGet on, for one answer and one database fault,
\* and syncEvents after it when the call ends
syncResponse(resp, fault) ==
  /\ syncCall.phase # "idle"
  /\ resp.status = 410 => syncCall.phase = "incremental"
  /\ resp.nextSyncToken \notin invalidated
  /\ faultRuns(resp, fault)
  /\ IF resp.status = 410
     THEN /\ syncCall' = [syncCall EXCEPT !.phase = "retry"]
          /\ syncObs' = [syncObs EXCEPT !.requests = @ + 1, !.request = fullRequest(now),
                                        !.gone = TRUE, !.status = resp.status]
          /\ invalidated' = invalidated \cup {syncCall.sync_token}
          /\ UNCHANGED <<events, nextMeetingTimer, startTimers, calendars>>
     ELSE IF resp.status # 200
     THEN /\ UNCHANGED <<events, calendars, invalidated>>
          /\ endCall([syncObs EXCEPT !.outcome = "threw", !.status = resp.status,
                                     !.failed = @ \cup {syncCall.id}])
     ELSE LET lists == partition(resp.items)
              applied == applyAnswer(events, calendars, syncCall.id, resp, fault)
          IN /\ events' = applied.events
             /\ calendars' = applied.calendars
             /\ endCall([syncObs EXCEPT
                           !.outcome = IF applied.threw THEN "threw" ELSE "returned",
                           !.failed = IF applied.threw THEN @ \cup {syncCall.id} ELSE @,
                           !.items = resp.items,
                           !.status = resp.status,
                           !.nextSyncToken = resp.nextSyncToken,
                           !.toUpsert = lists.toUpsert,
                           !.toRemove = lists.toRemove])
             /\ UNCHANGED invalidated
  /\ UNCHANGED now
  /\ SyncFrame

\* the API answers the request in flight
\* (the database does not fail)
SyncResponse == \E resp \in Responses : syncResponse(resp, "none")

\* the clock of the sync passes
TickSync ==
  /\ Advance(MaxSyncTicks)
  /\ UNCHANGED <<schedVars, arbVars, accountVars>>

\* answers to the requests of a pass over several calendars: about event E1 only
PassResponses ==
  {resp \in Responses :
     /\ Len(resp.items) <= 1
     /\ \A i \in 1..Len(resp.items) :
          /\ resp.items[i].id = "E1"
          /\ resp.items[i].status \in {"cancelled", "confirmed"}
          /\ resp.items[i].status = "cancelled" => resp.items[i].timed
     /\ resp.nextSyncToken # "t2"}

\* the API answers the request in flight; the database may fail
PassResponse ==
  \E resp \in PassResponses : \E fault \in Faults : syncResponse(resp, fault)

\* onWakeFromSleep as a whole, while no pass is running: the synchronous part, then
\* syncEvents up to its first await
OnWake ==
  /\ syncCall.phase = "idle"
  /\ onWakeFromSleep
  /\ syncCall' = startPass(calendars).call
  /\ syncObs' = [startPass(calendars).obs EXCEPT
                   !.wake = IF getActiveEvents # {} /\ activeMeeting = NoEvent
                            THEN "started" ELSE "scheduled"]
  /\ UNCHANGED <<calendars, invalidated, arbVars, oauthVars, refreshVars, storeVars,
                 managerVars>>

\* a saveGoogleCalendars that replaces the row of a calendar it already has
saveGoogleCalendarsReplace(cals, list) ==
  [id \in DOMAIN cals \cup DOMAIN list |->
     IF id \in DOMAIN list
     THEN [summary |-> list[id], is_selected |-> TRUE, sync_token |-> "null"]
     ELSE cals[id]]

\* DatabaseManager.saveGoogleCalendars: INSERT ... ON CONFLICT(id) DO UPDATE SET
\* summary, description, background_color; a new row gets the column defaults
saveGoogleCalendars(cals, list) ==
  [id \in DOMAIN cals \cup DOMAIN list |->
     IF id \notin DOMAIN list THEN cals[id]
     ELSE IF id \in DOMAIN cals THEN [cals[id] EXCEPT !.summary = list[id]]
     ELSE [summary |-> list[id], is_selected |-> TRUE, sync_token |-> "null"]]

\* fetchCalendars from the answer of the calendar list on
FetchCalendars ==
  /\ \E D \in SUBSET CalendarIds : \E summary \in Summaries :
       calendars' = saveGoogleCalendars(calendars, [id \in D |-> summary])
  /\ UNCHANGED <<now, schedVars, arbVars, oauthVars, refreshVars, storeVars, syncCall,
                 syncObs, invalidated, managerVars>>

\* DatabaseManager.updateCalendarSelection
updateCalendarSelection(cals, calendarId, isSelected) ==
  IF calendarId \in DOMAIN cals
  THEN [cals EXCEPT ![calendarId].is_selected = isSelected]
  ELSE cals

\* setCalendarSelection up to the first await of its syncEvents, while no pass is running
SetCalendarSelection ==
  /\ syncCall.phase = "idle"
  /\ \E calendarId \in CalendarIds : \E isSelected \in BOOLEAN :
       /\ calendars' = updateCalendarSelection(calendars, calendarId, isSelected)
       /\ syncCall' = startPass(calendars').call
       /\ syncObs' = startPass(calendars').obs
  /\ UNCHANGED <<now, schedVars, arbVars, oauthVars, refreshVars, storeVars, invalidated,
                 managerVars>>

(* ----------------------------- token table ---------------------------- *)

NoStoreCall == [op |-> "none", threw |-> FALSE, before |-> {}]

\* the rows callers pass to saveGoogleTokens: the authorization flow passes what the
\* token endpoint sent (a refresh token may be missing), a refresh passes the stored one
SavedRows ==
  [google_email : {"old@example.com", "user@example.com"}, access_token : {"at1", "at2"},
   refresh_token : {"rt0", "rt1", "undefined"}, expires_at : {T0 + 3600 * 1000},
   scope : {CALENDAR_SCOPE}]

\* DatabaseManager.deleteGoogleTokens
deleteGoogleTokens == {}

\* DatabaseManager.clearCalendarData: one transaction over the three tables
clearCalendarData == [events |-> {}, calendars |-> <<>>, tokens |-> {}]

StoreFrame ==
  UNCHANGED <<now, nextMeetingTimer, startTimers, meetingEndTimer, activeMeeting, notifiedMeetings,
              startNotifs, lastStart, arbVars, oauthFlowVars, refreshVars, syncCall, syncObs,
              invalidated, managerVars>>

SaveGoogleTokens ==
  /\ \E row \in SavedRows :
       LET saved == saveGoogleTokens(row)
       IN /\ tokens' = saved.tokens
          /\ storeCall' = [op |-> "save", threw |-> saved.threw, before |-> tokens]
  /\ UNCHANGED <<events, calendars>>
  /\ StoreFrame

DeleteGoogleTokens ==
  /\ tokens' = deleteGoogleTokens
  /\ storeCall' = [op |-> "delete", threw |-> FALSE, before |-> tokens]
  /\ UNCHANGED <<events, calendars>>
  /\ StoreFrame

ClearCalendarData ==
  /\ events' = clearCalendarData.events
  /\ calendars' = clearCalendarData.calendars
  /\ tokens' = clearCalendarData.tokens
  /\ storeCall' = [op |-> "clear", threw |-> FALSE, before |-> tokens]
  /\ StoreFrame

(* --------------------------- token refresh ---------------------------- *)

\* _apiGet calls that may be running together
CallIds == {1, 2}

FIVE_MINUTES == 5 * 60 * 1000

NoCredential ==
  [google_email |-> "none", access_token |-> "none", refresh_token |-> "none",
   expires_at |-> 0, scope |-> "none"]
NotCalling == [phase |-> "idle", tokens |-> NoCredential]

\* exchange: "none" (no answer in this step), "ok", "error" (the endpoint answered with
\* an error) or "failed" (no parsable answer); before: the table before the step
NoApiCall ==
  [op |-> "none", refreshIssued |-> FALSE, exchange |-> "none", returned |-> "none",
   error |-> "none", requestSent |-> "none", before |-> {}]

\* answers of the token endpoint to a refresh_token grant
RefreshResponses ==
  [error : BOOLEAN, access_token : {"at2", "at3"}, expires_in : {3600},
   scope : {"openid email"}]

\* getValidAccessToken: the test that decides on a refresh
needsRefreshInclusive(row, t) == row.expires_at - FIVE_MINUTES <= t
needsRefresh(row, t) == row.expires_at - FIVE_MINUTES < t

\* getValidAccessToken: the row saved after a refresh
refreshedRowResponseScope(old, refreshed, t) ==
  [google_email |-> old.google_email, access_token |-> refreshed.access_token,
   refresh_token |-> old.refresh_token, expires_at |-> t + refreshed.expires_in * 1000,
   scope |-> refreshed.scope]
refreshedRow(old, refreshed, t) ==
  [google_email |-> old.google_email, access_token |-> refreshed.access_token,
   refresh_token |-> old.refresh_token, expires_at |-> t + refreshed.expires_in * 1000,
   scope |-> old.scope]

\* the error getValidAccessToken throws for an answer of the token endpoint
refreshErrorUnchecked(threw, refreshed) ==
  IF threw THEN "request failed" ELSE "none"
refreshError(threw, refreshed) ==
  IF threw THEN "request failed"
  ELSE IF refreshed.error THEN "Token refresh failed"
  ELSE "none"

RefreshFrame ==
  UNCHANGED <<schedVars, arbVars, oauthFlowVars, storeVars, syncVars, managerVars>>

\* _apiGet up to the first await that waits for the network: getValidAccessToken reads
\* the row and either starts a refresh or returns the stored token, which _apiGet
\* sends in its request
ApiGet ==
  \E c \in CallIds :
    /\ refreshCalls[c].phase = "idle"
    /\ IF tokens = {}
       THEN /\ apiCall' = [NoApiCall EXCEPT !.op = "begin",
                                            !.error = "No Google tokens found"]
            /\ UNCHANGED refreshCalls
       ELSE LET row == CHOOSE r \in tokens : TRUE
            IN IF needsRefresh(row, now)
               THEN /\ refreshCalls' =
                         [refreshCalls EXCEPT ![c] = [phase |-> "refreshing", tokens |-> row]]
                    /\ apiCall' = [NoApiCall EXCEPT !.op = "begin", !.refreshIssued = TRUE,
                                                    !.before = tokens]
               ELSE /\ apiCall' = [NoApiCall EXCEPT !.op = "begin",
                                                    !.returned = row.access_token,
                                                    !.requestSent = row.access_token,
                                                    !.before = tokens]
                    /\ UNCHANGED refreshCalls
    /\ UNCHANGED <<now, tokens>>
    /\ RefreshFrame

\* getValidAccessToken from the return of refreshAccessToken, and the request of _apiGet
RefreshCompletes ==
  \E c \in CallIds, threw \in BOOLEAN, refreshed \in RefreshResponses :
    /\ refreshCalls[c].phase = "refreshing"
    /\ refreshCalls' = [refreshCalls EXCEPT ![c] = NotCalling]
    /\ LET error == refreshError(threw, refreshed)
           saved == saveGoogleTokens(refreshedRow(refreshCalls[c].tokens, refreshed, now))
           done == [NoApiCall EXCEPT !.op = "complete", !.before = tokens,
                      !.exchange = IF threw THEN "failed"
                                   ELSE IF refreshed.error THEN "error" ELSE "ok"]
       IN IF error # "none"
          THEN /\ apiCall' = [done EXCEPT !.error = error]
               /\ UNCHANGED tokens
          ELSE /\ tokens' = saved.tokens
               /\ apiCall' = IF saved.threw THEN [done EXCEPT !.error = "thrown"]
                             ELSE [done EXCEPT !.returned = refreshed.access_token,
                                               !.requestSent = refreshed.access_token]
    /\ UNCHANGED now
    /\ RefreshFrame

\* the clock of the API calls, observed every minute
TickRefresh ==
  /\ now < T0 + MaxRefreshTicks * MinuteMs
  /\ now' = now + MinuteMs
  /\ apiCall' = NoApiCall
  /\ UNCHANGED <<tokens, refreshCalls>>
  /\ RefreshFrame

(* --------------------------- calendar manager ------------------------- *)

IntervalIds == 1..MaxIntervals

\* calls of syncEvents that may await the network together
PassIds == {1, 2}

\* who calls syncEvents: start, the interval callback, syncOnFocus, onWakeFromSleep,
\* setCalendarSelection, startOAuth
Triggers == {"start", "interval", "focus", "wake", "selection", "oauth"}

\* if (now - this._lastFocusSync < 30000) return
FOCUS_THROTTLE_MS == 30 * 1000

\* granularity at which the clock is observed beside the focus events
FocusStepMs == 15 * 1000

\* call: the _syncCalendar call in progress; after: the passes in flight that began
\* before this one; overtaken: the calendars whose cursor a pass that began after this
\* one has stored since
NoPass == [call |-> NotSyncing, trigger |-> "none", after |-> {}, overtaken |-> {}]

\* op: the operation that ran last; sync: it called syncEvents; uncaught: an exception
\* left the host callback it ran in; stale: it stored a cursor over one stored by a pass
\* that began later; disconnected: disconnect ran and no authorization has succeeded
\* since; focusAt: when syncOnFocus last called syncEvents
NoMgrObs ==
  [op |-> "none", sync |-> FALSE, uncaught |-> FALSE, stale |-> FALSE,
   disconnected |-> FALSE, focusAt |-> Null]

\* the fields of the manager and the tables it writes, as one value
Mgr ==
  [events |-> events, timer |-> nextMeetingTimer, pending |-> startTimers,
   endTimer |-> meetingEndTimer, activeMeeting |-> activeMeeting,
   notified |-> notifiedMeetings, tokens |-> tokens, calendars |-> calendars,
   syncInterval |-> syncInterval, intervals |-> intervals,
   lastFocusSync |-> lastFocusSync, passes |-> passes, oauthCall |-> oauthCall,
   obs |-> [mgr EXCEPT !.op = "none", !.sync = FALSE, !.uncaught = FALSE,
                       !.stale = FALSE]]

SetMgr(s) ==
  /\ events' = s.events
  /\ nextMeetingTimer' = s.timer
  /\ startTimers' = s.pending
  /\ meetingEndTimer' = s.endTimer
  /\ activeMeeting' = s.activeMeeting
  /\ notifiedMeetings' = s.notified
  /\ tokens' = s.tokens
  /\ calendars' = s.calendars
  /\ syncInterval' = s.syncInterval
  /\ intervals' = s.intervals
  /\ lastFocusSync' = s.lastFocusSync
  /\ passes' = s.passes
  /\ oauthCall' = s.oauthCall
  /\ mgr' = s.obs

\* what the operations of the manager never write
ManagerFrame ==
  UNCHANGED <<now, startNotifs, lastStart, arbVars, oauthFlowVars, refreshVars, storeVars,
              syncCall, syncObs, invalidated>>

isConnected(s) == s.tokens # {}

\* scheduleNextMeeting on the manager's fields: the states it can leave
scheduleNext(s) ==
  {[s EXCEPT !.timer = r.timer, !.pending = r.pending] :
     r \in ScheduleResults(s.pending, s.timer, s.events, s.notified)}

\* this.syncInterval = setInterval(...): the host starts an interval it did not have
setInterval(s) ==
  {[s EXCEPT !.syncInterval = i, !.intervals = @ \cup {i}] :
     i \in {j \in IntervalIds : j \notin s.intervals /\ \A k \in IntervalIds \ s.intervals : j <= k}}

\* startOAuth: if (this.syncInterval) clearInterval(this.syncInterval);
\* this.syncInterval = setInterval(...)
setSyncInterval(s) ==
  setInterval([s EXCEPT !.intervals = @ \ {s.syncInterval}])

\* what follows the end of a pass in its caller: .then(() => this.scheduleNextMeeting())
\* after start, the interval, syncOnFocus; the rest of setCalendarSelection and of
\* startOAuth; nothing after onWakeFromSleep
continuation(s, trigger) ==
  IF trigger = "wake" THEN {s}
  ELSE IF trigger = "oauth"
    THEN UNION {setSyncInterval([x EXCEPT !.oauthCall = "idle"]) : x \in scheduleNext(s)}
  ELSE scheduleNext(s)

\* syncEvents up to its first await for the network, and its caller's continuation when
\* it ends without one: no calendar is selected (it returns at once), or no credential is
\* stored (every _syncCalendar throws in getValidAccessToken)
syncEvents(s, trigger) ==
  LET selectedCalendars == getSelectedCalendars(s.calendars)
      free == {p \in PassIds : s.passes[p].call.phase = "idle"}
      noted == [s EXCEPT !.obs.sync = TRUE]
  IN  IF free = {} THEN {}
      ELSE IF selectedCalendars = <<>> THEN continuation(noted, trigger)
      ELSE IF ~isConnected(s)
        THEN UNION {continuation(x, trigger) : x \in scheduleNext(noted)}
      ELSE {[noted EXCEPT
               !.passes[CHOOSE p \in free : \A q \in free : p <= q] =
                  [call |-> beginCall(Head(selectedCalendars), Tail(selectedCalendars)),
                   trigger |-> trigger, after |-> PassIds \ free, overtaken |-> {}]]}

start(s) ==
  IF ~isConnected(s) THEN {[s EXCEPT !.obs.op = "start"]}
  ELSE UNION {setInterval(x) :
                x \in syncEvents([s EXCEPT !.obs.op = "start"], "start")}

stop(s) ==
  [s EXCEPT !.intervals = @ \ {s.syncInterval},
            !.syncInterval = 0,
            !.pending = clearStart(s.pending, s.timer),
            !.timer = NoTimer,
            !.endTimer = NoEndTimer,
            !.activeMeeting = NoEvent,
            !.obs.op = "stop"]

disconnect(s) ==
  [stop(s) EXCEPT !.events = clearCalendarData.events,
                  !.calendars = clearCalendarData.calendars,
                  !.tokens = clearCalendarData.tokens,
                  !.notified = {},
                  !.obs.op = "disconnect",
                  !.obs.disconnected = TRUE]

getConnectionStatus == [connected |-> tokens # {}]

\* a syncOnFocus that calls syncEvents whenever the account is connected
throttledNever(last, t) == FALSE

throttled(last, t) == t - last < FOCUS_THROTTLE_MS

syncOnFocus(s) ==
  LET noted == [s EXCEPT !.obs.op = "focus"]
  IN  IF ~isConnected(s) THEN {noted}
      ELSE IF throttled(s.lastFocusSync, now) THEN {noted}
      ELSE syncEvents([noted EXCEPT !.lastFocusSync = now, !.obs.focusAt = now], "focus")

setCalendarSelection(s, calendarId, isSelected) ==
  syncEvents([s EXCEPT !.calendars = updateCalendarSelection(@, calendarId, isSelected),
                       !.obs.op = "selection"], "selection")

\* the callback of an interval set by start or startOAuth
intervalCallback(s) == syncEvents([s EXCEPT !.obs.op = "interval"], "interval")

\* answers to the request of a pass: 200 with no item or with E1 as a confirmed timed
\* event, or a failure
ManagerResponses ==
  {resp \in PassResponses :
     /\ resp.status # 410
     /\ \A i \in 1..Len(resp.items) :
          resp.items[i].status = "confirmed" /\ resp.items[i].timed}

\* _syncCalendar of pass p from the answer on, then syncEvents: the next selected
\* calendar, or the broadcast, scheduleNextMeeting and the caller's continuation
answer(s, p, resp) ==
  LET pass == s.passes[p]
      call == pass.call
      applied == IF resp.status = 200
                 THEN applyAnswer(s.events, s.calendars, call.id, resp, "none")
                 ELSE [events |-> s.events, calendars |-> s.calendars, threw |-> TRUE]
      stored == /\ resp.status = 200
                /\ resp.nextSyncToken # "undefined"
                /\ call.id \in DOMAIN s.calendars
      noteCursor(q) ==
        IF stored /\ q \in pass.after
        THEN [s.passes[q] EXCEPT !.overtaken = @ \cup {call.id}]
        ELSE s.passes[q]
      s1 == [s EXCEPT !.events = applied.events,
                      !.calendars = applied.calendars,
                      !.passes = [q \in PassIds |-> noteCursor(q)],
                      !.obs.op = "answer",
                      !.obs.stale = stored /\ call.id \in pass.overtaken]
      ended == [q \in PassIds |->
                  IF q = p THEN NoPass ELSE [s1.passes[q] EXCEPT !.after = @ \ {p}]]
  IN  IF call.queue # <<>> /\ isConnected(s1)
      THEN {[s1 EXCEPT !.passes[p].call = beginCall(Head(call.queue), Tail(call.queue))]}
      ELSE UNION {continuation(x, pass.trigger) :
                    x \in scheduleNext([s1 EXCEPT !.passes = ended])}

Start == (\E s \in start(Mgr) : SetMgr(s)) /\ ManagerFrame

Stop == SetMgr(stop(Mgr)) /\ ManagerFrame

Disconnect == SetMgr(disconnect(Mgr)) /\ ManagerFrame

SyncOnFocus == (\E s \in syncOnFocus(Mgr) : SetMgr(s)) /\ ManagerFrame

IntervalFires ==
  /\ intervals # {}
  /\ \E s \in intervalCallback(Mgr) : SetMgr(s)
  /\ ManagerFrame

SelectCalendar ==
  /\ \E calendarId \in DOMAIN calendars, isSelected \in BOOLEAN :
       \E s \in setCalendarSelection(Mgr, calendarId, isSelected) : SetMgr(s)
  /\ ManagerFrame

\* onWakeFromSleep as a whole: the start transition or the reschedule, then syncEvents
WakeFromSleep ==
  /\ onWakeFromSleep
  /\ \E s \in syncEvents([Mgr EXCEPT !.obs.op = "wake"], "wake") :
       /\ passes' = s.passes
       /\ mgr' = s.obs
  /\ UNCHANGED <<tokens, calendars, syncInterval, intervals, lastFocusSync, oauthCall>>
  /\ UNCHANGED <<arbVars, oauthFlowVars, refreshVars, storeVars, syncCall, syncObs,
                 invalidated>>

\* the API answers the request of a pass
PassAnswer ==
  /\ \E p \in PassIds, resp \in ManagerResponses :
       /\ passes[p].call.phase # "idle"
       /\ \E s \in answer(Mgr, p, resp) : SetMgr(s)
  /\ ManagerFrame

\* startOAuth up to `await this.oauth.startOAuthFlow()`
StartOAuth ==
  /\ oauthCall = "idle"
  /\ SetMgr([Mgr EXCEPT !.oauthCall = "flow", !.obs.op = "startOAuth"])
  /\ ManagerFrame

\* the flow settles: resolved after it saved the credential, and startOAuth goes on to
\* `await this.fetchCalendars()`; or rejected, and startOAuth rejects
FlowSettles ==
  /\ oauthCall = "flow"
  /\ \E resolved \in BOOLEAN :
       SetMgr(IF resolved
              THEN [Mgr EXCEPT !.tokens = saveGoogleTokens(StoredCredential).tokens,
                               !.oauthCall = "fetch",
                               !.obs.op = "startOAuth",
                               !.obs.disconnected = FALSE]
              ELSE [Mgr EXCEPT !.oauthCall = "idle", !.obs.op = "startOAuth"])
  /\ ManagerFrame

\* fetchCalendars settles: the list is saved and startOAuth goes on to
\* `await this.syncEvents()`; or _apiGet failed, and startOAuth rejects
FetchSettles ==
  /\ oauthCall = "fetch"
  /\ \E ok \in BOOLEAN :
       IF ok
       THEN \E s \in syncEvents(
                       [Mgr EXCEPT !.calendars = saveGoogleCalendars(@, StoredCalendarList),
                                   !.oauthCall = "sync",
                                   !.obs.op = "startOAuth"], "oauth") : SetMgr(s)
       ELSE SetMgr([Mgr EXCEPT !.oauthCall = "idle", !.obs.op = "startOAuth"])
  /\ ManagerFrame

\* the clock beside the focus events
TickFocus ==
  /\ now < T0 + MaxFocusTicks * FocusStepMs
  /\ now' = now + FocusStepMs
  /\ UNCHANGED <<schedVars, arbVars, accountVars>>

\* the query of the persistence service that throws during a callback, if any: each of
\* them logs the error and rethrows it
DbFaults == {"none", "getActiveEvents", "getUpcomingEvents", "getSelectedCalendars"}

\* what the timer callbacks leave alone
CallbackFrame ==
  UNCHANGED <<now, events, tokens, calendars, syncInterval, intervals, lastFocusSync, passes,
              oauthCall, arbVars, oauthFlowVars, refreshVars, storeVars, syncCall, syncObs,
              invalidated>>

\* the callback of nextMeetingTimer, () => { this.onMeetingStart(next); }, with a query
\* that may throw: getActiveEvents, or getUpcomingEvents where it is called first (in
\* the test for an event that is not active, else in scheduleNextMeeting after the
\* meeting was committed and the handle cleared). Nothing catches it. The timeout that
\* fired is pending no more, whatever the field still refers to.
StartTimerCallback ==
  /\ nextMeetingTimer.armed
  /\ now >= nextMeetingTimer.ev.start
  /\ NotifsBelowCap
  /\ \E fault \in DbFaults \ {"getSelectedCalendars"} :
       LET event == nextMeetingTimer.ev
           isActive == event.id \in Ids(getActiveEvents)
       IN  IF fault = "none"
           THEN /\ onMeetingStart(event)
                /\ mgr' = [Mgr.obs EXCEPT !.op = "startTimer"]
           ELSE IF fault = "getActiveEvents" \/ ~isActive
           THEN /\ nextMeetingTimer' = NoTimer
                /\ startTimers' = startTimers \ {event}
                /\ mgr' = [Mgr.obs EXCEPT !.op = "startTimer", !.uncaught = TRUE]
                /\ UNCHANGED <<meetingEndTimer, activeMeeting, notifiedMeetings, startNotifs,
                               lastStart>>
           ELSE /\ activeMeeting' = event
                /\ notifiedMeetings' = notifiedMeetings \cup {event.id}
                /\ startNotifs' = [startNotifs EXCEPT ![event.id] = @ + 1]
                /\ lastStart' = "committed"
                /\ meetingEndTimer' = IF event.end - now > 0
                                      THEN [armed |-> TRUE, at |-> event.end]
                                      ELSE NoEndTimer
                /\ nextMeetingTimer' = NoTimer
                /\ startTimers' = startTimers \ {event}
                /\ mgr' = [Mgr.obs EXCEPT !.op = "startTimer", !.uncaught = TRUE]
  /\ CallbackFrame

\* the callback of meetingEndTimer, () => { this.onMeetingEnd(); }: scheduleNextMeeting
\* clears the start timer and then queries, and nothing catches what the query throws
EndTimerCallback ==
  /\ \E fault \in {"none", "getUpcomingEvents"} :
       IF fault = "none"
       THEN /\ onMeetingEnd
            /\ mgr' = [Mgr.obs EXCEPT !.op = "endTimer"]
       ELSE /\ meetingEndTimer.armed
            /\ now >= meetingEndTimer.at
            /\ activeMeeting' = NoEvent
            /\ meetingEndTimer' = NoEndTimer
            /\ nextMeetingTimer' = NoTimer
            /\ startTimers' = clearStart(startTimers, nextMeetingTimer)
            /\ mgr' = [Mgr.obs EXCEPT !.op = "endTimer", !.uncaught = TRUE]
            /\ UNCHANGED <<notifiedMeetings, startNotifs, lastStart>>
  /\ CallbackFrame

\* the callback of the sync interval: syncEvents().then(...).catch(log). A throw of
\* getSelectedCalendars rejects the promise of syncEvents, and the catch logs it
IntervalCallback ==
  /\ intervals # {}
  /\ \E fault \in {"none", "getSelectedCalendars"} :
       IF fault = "none"
       THEN \E s \in intervalCallback(Mgr) : SetMgr(s)
       ELSE SetMgr([Mgr EXCEPT !.obs.op = "interval"])
  /\ ManagerFrame

Init ==
  /\ now = T0
  /\ events \in Stores
  /\ nextMeetingTimer \in scheduleNextMeeting(events, {})
  /\ startTimers = IF nextMeetingTimer.armed THEN {nextMeetingTimer.ev} ELSE {}
  /\ meetingEndTimer = NoEndTimer
  /\ activeMeeting = NoEvent
  /\ notifiedMeetings = {}
  /\ startNotifs = [id \in EventIds |-> 0]
  /\ lastStart = "none"
  /\ preferences = [processDetection |-> TRUE, audioDetection |-> TRUE]
  /\ activeDetections = [d \in DetIds |-> "absent"]
  /\ prompts = [d \in DetIds |-> "none"]
  /\ pollInterval = FALSE
  /\ detectedProcesses = {}
  /\ dismissedProcesses = {}
  /\ checkInterval = FALSE
  /\ consecutiveChecks = 0
  /\ hasPrompted = FALSE
  /\ lastDismissedAt = Null
  /\ outcome = NoOutcome
  /\ raised = NoneRaised
  /\ seenActive = {}
  /\ dismissedNow = {}
  /\ dismissedAt = [k \in ProcessKeys |-> Null]
  /\ recording = "none"
  /\ tokens \in {{}} \cup {{row} : row \in StoredCredentials}
  /\ flows = 0
  /\ state = "none"
  /\ listener = "none"
  /\ closeCalls = 0
  /\ timeoutId = [armed |-> FALSE, at |-> 0]
  /\ exchanges = 0
  /\ settled = "idle"
  /\ tokensAtStart = tokens
  /\ httpStatus = 0
  /\ result = "none"
  /\ validRedirect = FALSE
  /\ codeVerifier = "none"
  /\ codeChallenge = "none"
  /\ authUrl = NoAuthUrl
  /\ tokenRequest = NoTokenRequest
  /\ refreshCalls = [c \in CallIds |-> NotCalling]
  /\ apiCall = NoApiCall
  /\ storeCall = NoStoreCall
  /\ calendars \in {<<>>} \cup UNION {[D -> {row \in CalendarRows : row.summary = "a"}] :
                                        D \in {{"C1"}, CalendarIds}}
  /\ tokens = {} => calendars = <<>>
  /\ syncCall = NotSyncing
  /\ syncObs = NoSyncObs
  /\ invalidated = {}
  /\ syncInterval = 0
  /\ intervals = {}
  /\ lastFocusSync = 0
  /\ passes = [p \in PassIds |-> NoPass]
  /\ oauthCall = "idle"
  /\ mgr = NoMgrObs

\* the scheduler of a connected account
InitScheduler == Init /\ tokens = {StoredCredential} /\ calendars = StoredCalendars

NextScheduler ==
  \/ TickScheduler
  \/ StartTimerFires /\ UNCHANGED <<arbVars, accountVars>>
  \/ onMeetingEnd /\ UNCHANGED <<arbVars, accountVars>>
  \/ onWakeFromSleep /\ UNCHANGED <<arbVars, accountVars>>
  \/ SyncUpserts /\ UNCHANGED <<arbVars, accountVars>>
  \/ SyncRemoves /\ UNCHANGED <<arbVars, accountVars>>

SpecScheduler == InitScheduler /\ [][NextScheduler]_vars

\* meetings of one step that start within the next two steps
ShortRows == {e \in EventRows : e.end = e.start + StepMs /\ e.start <= T0 + 2 * StepMs}

TickTimers ==
  /\ Advance(MaxTimerTicks)
  /\ UNCHANGED <<schedVars, arbVars, accountVars>>

\* the two timers of the scheduler over a store of short meetings
InitTimers == InitScheduler /\ events \subseteq ShortRows

NextTimers ==
  \/ TickTimers
  \/ StartTimerFires /\ UNCHANGED <<arbVars, accountVars>>
  \/ onMeetingEnd /\ UNCHANGED <<arbVars, accountVars>>
  \/ onWakeFromSleep /\ UNCHANGED <<arbVars, accountVars>>
  \/ SyncUpserts /\ events' \subseteq ShortRows /\ UNCHANGED <<arbVars, accountVars>>
  \/ SyncRemoves /\ UNCHANGED <<arbVars, accountVars>>

SpecTimers == InitTimers /\ [][NextTimers]_vars

\* the detection engine beside a calendar of one event, whose timers run
\* (engine start and stop are exercised in SpecCooldown)
InitArbiter ==
  /\ Init
  /\ tokens = {StoredCredential}
  /\ calendars = StoredCalendars
  /\ \A e \in events : e.id = "E1" /\ e.end <= T0 + ArbiterTicks * StepMs

NextArbiter ==
  \/ TickArbiter /\ Unwatched
  \/ StartTimerFires /\ ArbIdle /\ UNCHANGED accountVars /\ Unwatched
  \/ onMeetingEnd /\ ArbIdle /\ UNCHANGED accountVars /\ Unwatched
  \/ Poll /\ Unwatched
  \/ Check /\ Unwatched
  \/ SetPreferences /\ Unwatched
  \/ HandleUserResponse /\ Unwatched
  \/ NotificationClick /\ Unwatched
  \/ NotificationClose /\ Unwatched

SpecArbiter == InitArbiter /\ [][NextArbiter]_vars

\* the detectors and the engine with no calendar event stored, over the cooldown
InitCooldown == Init /\ events = {} /\ tokens = {}

NextCooldown ==
  \/ TickCooldown /\ NoteDismissals
  \/ Poll /\ NoteDismissals
  \/ Check /\ NoteDismissals
  \/ SetPreferences /\ NoteDismissals
  \/ EngineStart /\ NoteDismissals
  \/ EngineStop /\ NoteDismissals
  \/ HandleUserResponse /\ NoteDismissals
  \/ NotificationClick /\ NoteDismissals
  \/ NotificationClose /\ NoteDismissals

SpecCooldown == InitCooldown /\ [][NextCooldown]_vars

\* authorization flows, with no calendar event stored
InitOAuth ==
  /\ Init
  /\ events = {}
  /\ tokens \in {{}, {StoredCredential}}
  /\ calendars \in {<<>>, StoredCalendars}
  /\ tokens # {} => calendars = StoredCalendars

NextOAuth ==
  \/ TickOAuth
  \/ StartOAuthFlow
  \/ RedirectRequest
  \/ ExchangeCompletes
  \/ TimeoutFires
  \/ ServerError

SpecOAuth == InitOAuth /\ [][NextOAuth]_vars

\* the token table under its three writers, with no timer armed (the manager stopped)
InitStore ==
  /\ Init
  /\ ~nextMeetingTimer.armed
  /\ Ids(events) \subseteq {"E1"}
  /\ calendars \in {<<>>, StoredCalendars}

NextStore ==
  \/ SaveGoogleTokens
  \/ DeleteGoogleTokens
  \/ ClearCalendarData

SpecStore == InitStore /\ [][NextStore]_vars

\* sync passes of a connected account with at most one stored event
InitSync ==
  /\ Init
  /\ tokens = {StoredCredential}
  /\ DOMAIN calendars = {"C1"}
  /\ calendars["C1"].is_selected
  /\ Ids(events) \subseteq {"E1"}

NextSync ==
  \/ TickSync
  \/ SyncEvents
  \/ SyncResponse

SpecSync == InitSync /\ [][NextSync]_vars

\* the passes over the calendars of an account beside the start timer; the store holds
\* at most event E1, upcoming
InitPass ==
  /\ Init
  /\ tokens = {StoredCredential}
  /\ calendars # <<>>
  /\ \A e \in events : e.id = "E1" /\ e.start = T0 + StepMs /\ e.end = T0 + 2 * StepMs

NextPass ==
  \/ TickSync
  \/ SyncEvents
  \/ PassResponse
  \/ OnWake
  \/ StartTimerFires /\ UNCHANGED <<arbVars, accountVars>>

SpecPass == InitPass /\ [][NextPass]_vars

\* the operations on table google_calendars, with no event stored at first
InitCalendars ==
  /\ Init
  /\ tokens = {StoredCredential}
  /\ calendars # <<>>
  /\ events = {}

NextCalendars ==
  \/ SyncEvents
  \/ PassResponse
  \/ FetchCalendars
  \/ SetCalendarSelection

SpecCalendars == InitCalendars /\ [][NextCalendars]_vars

\* API calls of a connected account
InitRefresh == Init /\ events = {} /\ tokens # {} /\ calendars = StoredCalendars

NextRefresh ==
  \/ TickRefresh
  \/ ApiGet
  \/ RefreshCompletes

SpecRefresh == InitRefresh /\ [][NextRefresh]_vars

\* a timer of the scheduler is due
DueTimer ==
  \/ nextMeetingTimer.armed /\ now >= nextMeetingTimer.ev.start
  \/ meetingEndTimer.armed /\ now >= meetingEndTimer.at

\* the clock of a host that stays awake: a due timer runs before time is observed again
TickPunctual ==
  /\ ~DueTimer
  /\ TickTimers

NextPunctual ==
  \/ TickPunctual
  \/ StartTimerFires /\ UNCHANGED <<arbVars, accountVars>>
  \/ onMeetingEnd /\ UNCHANGED <<arbVars, accountVars>>

\* the scheduler over a store that no sync changes, on a host that never sleeps: every
\* timer runs at the time it was set for
SpecPunctual ==
  /\ InitTimers
  /\ [][NextPunctual]_vars
  /\ WF_vars(TickPunctual)
  /\ WF_vars(StartTimerFires /\ UNCHANGED <<arbVars, accountVars>>)
  /\ WF_vars(onMeetingEnd /\ UNCHANGED <<arbVars, accountVars>>)

\* focus events of the host window beside the answers to the passes they start
InitFocus ==
  /\ Init
  /\ events = {}
  /\ tokens \in {{}, {StoredCredential}}
  /\ calendars \in {<<>>, StoredCalendars}

NextFocus ==
  \/ TickFocus
  \/ SyncOnFocus
  \/ PassAnswer

SpecFocus == InitFocus /\ [][NextFocus]_vars

\* the calls that start and stop the manager, connect and disconnect the account, with
\* at most event E1 stored, upcoming
InitLifecycle ==
  /\ Init
  /\ tokens \in {{}, {StoredCredential}}
  /\ calendars \in {<<>>, StoredCalendars}
  /\ \A e \in events : e.id = "E1" /\ e.start = T0 + StepMs /\ e.end = T0 + 2 * StepMs
  /\ tokens = {} => events = {}

NextLifecycle ==
  \/ TickSync
  \/ Start
  \/ Stop
  \/ Disconnect
  \/ StartOAuth
  \/ FlowSettles
  \/ FetchSettles
  \/ PassAnswer
  \/ StartTimerFires /\ UNCHANGED <<arbVars, accountVars>>

SpecLifecycle == InitLifecycle /\ [][NextLifecycle]_vars

\* everything that calls syncEvents on a connected account with its calendar selected,
\* beside the answers to the requests
InitTriggers ==
  /\ Init
  /\ events = {}
  /\ tokens = {StoredCredential}
  /\ calendars = StoredCalendars

NextTriggers ==
  \/ Start
  \/ IntervalFires
  \/ SyncOnFocus
  \/ WakeFromSleep
  \/ SelectCalendar
  \/ StartOAuth
  \/ FlowSettles
  \/ FetchSettles
  \/ PassAnswer

SpecTriggers == InitTriggers /\ [][NextTriggers]_vars

\* a connected account whose access token is about to expire: sync passes and API calls
\* beside disconnect and a new authorization
InitDisconnect ==
  /\ Init
  /\ events = {}
  /\ \E row \in tokens : needsRefresh(row, now)
  /\ calendars = StoredCalendars

NextDisconnect ==
  \/ Start
  \/ Disconnect
  \/ PassAnswer
  \/ ApiGet
  \/ RefreshCompletes
  \/ StartOAuth
  \/ FlowSettles
  \/ FetchSettles

SpecDisconnect == InitDisconnect /\ [][NextDisconnect]_vars

\* the callbacks the manager hands to the host (start timer, end timer, sync interval)
\* on a connected account, with a persistence service that may fail and an API that may
\* answer with an error
InitCallbacks ==
  /\ InitLifecycle
  /\ tokens # {}
  /\ calendars = StoredCalendars

NextCallbacks ==
  \/ TickTimers
  \/ Start
  \/ IntervalCallback
  \/ PassAnswer
  \/ StartTimerCallback
  \/ EndTimerCallback

SpecCallbacks == InitCallbacks /\ [][NextCallbacks]_vars

\* the interval callbacks of the two detectors while a meeting app keeps running and
\* the microphone stays in use
PollRunning ==
  /\ pollInterval
  /\ \E subj \in Subjects : SetArb(poll(Arb, ProcessKeys, subj))
  /\ CalendarFrame

CheckActive ==
  /\ checkInterval
  /\ \E subj \in Subjects : SetArb(check(Arb, TRUE, subj))
  /\ CalendarFrame

EngineStartInUse ==
  /\ ~pollInterval
  /\ \E subj \in Subjects : SetArb(engineStart(Arb, ProcessKeys, TRUE, subj))
  /\ CalendarFrame

\* the detection engine during and after a calendar meeting, with a meeting app running
\* and the microphone in use throughout
NextInUse ==
  \/ TickArbiter /\ Unwatched
  \/ StartTimerFires /\ ArbIdle /\ UNCHANGED accountVars /\ Unwatched
  \/ onMeetingEnd /\ ArbIdle /\ UNCHANGED accountVars /\ Unwatched
  \/ PollRunning /\ Unwatched
  \/ CheckActive /\ Unwatched
  \/ EngineStartInUse /\ Unwatched

SpecInUse == InitArbiter /\ [][NextInUse]_vars

\* the same in a running process: the clock moves, due timers and the detectors' interval
\* callbacks are run
SpecInUseLive ==
  /\ SpecInUse
  /\ WF_vars(TickArbiter /\ Unwatched)
  /\ WF_vars(StartTimerFires /\ ArbIdle /\ UNCHANGED accountVars /\ Unwatched)
  /\ WF_vars(onMeetingEnd /\ ArbIdle /\ UNCHANGED accountVars /\ Unwatched)
  /\ WF_vars(PollRunning /\ Unwatched)
  /\ WF_vars(CheckActive /\ Unwatched)
  /\ WF_vars(EngineStartInUse /\ Unwatched)

\* the same flows in a running process: time passes and a due timer is run
SpecOAuthLive == SpecOAuth /\ WF_vars(TickOAuth) /\ WF_vars(TimeoutFires)

\* the scheduler on a host whose clock runs and whose due end timer is run
SpecSchedulerLive ==
  /\ SpecScheduler
  /\ WF_vars(TickScheduler)
  /\ WF_vars(onMeetingEnd /\ UNCHANGED <<arbVars, accountVars>>)

(* ------------------------------- claims ------------------------------- *)
\* C1: after any sequence of scheduler operations with no disconnect, a meeting-starting
\* notification is emitted at most once for each event id
C1_NotifiedAtMostOnce == \A id \in EventIds : startNotifs[id] <= 1

NothingAccepted == \A d \in DetIds : outcome[d] # "created" /\ raised[d] = 0

Outstanding == {d \in DetIds : prompts[d] # "none" /\ activeDetections[d] = "open"}

\* C3: at any time at most one detection prompt is outstanding
C3_OnePromptAtATime == Cardinality(Outstanding) <= 1

\* C4: after the audio Detection was dismissed at T, a sustained-audio signal before
\* T + COOLDOWN_MS creates no Detection, and one after it creates a new Detection and
\* raises a notification
C4_AudioCooldown ==
  lastDismissedAt # Null =>
    /\ now - lastDismissedAt < COOLDOWN_MS => outcome[AudioId] # "created"
    /\ (now - lastDismissedAt >= COOLDOWN_MS /\ outcome[AudioId] \notin {"none", "disabled"})
         => /\ outcome[AudioId] = "created"
            /\ raised[AudioId] = 1
            /\ activeDetections[AudioId] = "open"

\* C5: after a process Detection was dismissed, the process source is ignored for the
\* cooldown, and once it has elapsed a running meeting app has an open Detection again
C5_ProcessCooldown ==
  \A k \in ProcessKeys :
    LET id == DetectionId("process", k)
    IN  dismissedAt[k] # Null =>
          /\ now - dismissedAt[k] < COOLDOWN_MS => outcome[id] # "created"
          /\ (/\ now - dismissedAt[k] >= COOLDOWN_MS
              /\ id \in seenActive
              /\ preferences.processDetection)
               => activeDetections[id] = "open"

\* C6: while a source is disabled by preference, no open Detection of it is recorded
C6_NoStaleDetection ==
  \A d \in DetIds :
    (\/ d[1] = "process" /\ ~preferences.processDetection
     \/ d[1] = "audio" /\ ~preferences.audioDetection)
      => activeDetections[d] # "open"

\* C7: while the Detection of an id is open, a step records and raises nothing for that
\* id, and a step that records a Detection raises exactly one notification for it
C7_DedupAndOnePrompt ==
  [][\A d \in DetIds :
       /\ activeDetections[d] = "open" => raised'[d] = 0 /\ outcome'[d] # "created"
       /\ (activeDetections[d] # "open" /\ activeDetections'[d] = "open") => raised'[d] = 1
       /\ raised'[d] > 0 => outcome'[d] = "created" /\ activeDetections'[d] = "open"]_vars

\* a signal-started arrived for an id whose Detection is open, and was ignored
C7_Witness == \E d \in DetIds : outcome[d] = "dedup" /\ activeDetections[d] = "open"

\* C8, as claimed: an accepted signal-started takes as subject a stored event that starts
\* within IMMINENT_THRESHOLD_MS and has not started, and the detected app when there is none
C8_AnyStoredEventPreferred ==
  \A d \in DetIds :
    outcome[d] = "created" =>
      LET soon == {e \in events : e.start > now /\ e.start - now <= IMMINENT_THRESHOLD_MS}
      IN  IF soon = {} THEN prompts[d] = "generic" ELSE prompts[d] \in Ids(soon)

\* C8, amended: the same, of stored confirmed events that are not all-day
C8_ImminentPreferred ==
  \A d \in DetIds :
    outcome[d] = "created" =>
      LET soon == {e \in events : /\ e.start > now
                                  /\ e.start - now <= IMMINENT_THRESHOLD_MS
                                  /\ ~e.allDay /\ e.status = "confirmed"}
      IN  IF soon = {} THEN prompts[d] = "generic" ELSE prompts[d] \in Ids(soon)

\* a signal-started was accepted with the imminent event as its subject
C8_Witness == \E d \in DetIds : outcome[d] = "created" /\ prompts[d] \in EventIds

\* C9: in every authorization flow server.close() is called exactly once: never twice,
\* and at least once by the time the flow's promise is settled, whichever of the exit
\* paths settles it and however the timeout interleaves with an exchange in flight.
C9_ListenerClosedOnce ==
  /\ closeCalls <= 1
  /\ settled \in {"resolved", "rejected"} => closeCalls >= 1

\* C10: whenever the flow's promise is rejected, the token table holds exactly the rows
\* it held when the flow began.
C10_RejectedLeavesStore ==
  settled = "rejected" => tokens = tokensAtStart

\* C11: a request whose state parameter differs from the flow's state never ends the
\* flow, whatever else it carries: it is answered 400, the listener stays open, the
\* timeout stays armed and the promise stays pending.
C11_WrongStateNeverEnds ==
  [][\A req \in Requests :
       (req.state # state /\ requestHandler(req)) =>
         /\ httpStatus' = 400
         /\ listener' = "listening"
         /\ timeoutId'.armed
         /\ settled' = "pending"]_vars

\* C12: every authorization flow terminates, and a flow that no redirect carrying its
\* state has reached ends by its timeout: the listener is closed and the promise is
\* rejected with the timeout error, whatever other requests arrived (the listener's own
\* error event aside).
C12_EndsByTimeout ==
  /\ [](settled = "pending" => <>(settled # "pending" /\ listener = "closed"))
  /\ []((settled \in {"resolved", "rejected"} /\ ~validRedirect /\ result # "server error")
          => (settled = "rejected" /\ result = "OAuth flow timed out"
              /\ listener = "closed"))

\* C13: in every flow the code_challenge of the authorization URL is the
\* SHA-256/base64url digest of the flow's code verifier (method S256), and the
\* code_verifier of every token request of the flow is that verifier.
C13_PkceRoundTrip ==
  /\ flows > 0 =>
       /\ codeVerifier \in Verifiers
       /\ authUrl.code_challenge = sha256Base64url(codeVerifier)
       /\ authUrl.code_challenge_method = "S256"
  /\ tokenRequest # NoTokenRequest => tokenRequest.code_verifier = codeVerifier

\* a second flow, with another verifier than the first could have, sent a token request
C13_Witness ==
  /\ flows = 2
  /\ authUrl.code_challenge = "h2"
  /\ tokenRequest = [code |-> "code", code_verifier |-> "v2"]

\* C14: getValidAccessToken starts a refresh exactly when the stored expires_at is less
\* than five minutes after now; otherwise (five minutes or more) it starts none and
\* returns the stored access token.
C14_RefreshIffNearExpiry ==
  (apiCall.op = "begin" /\ tokens # {}) =>
    \A row \in tokens :
      /\ apiCall.refreshIssued <=> (row.expires_at - now < FIVE_MINUTES)
      /\ ~apiCall.refreshIssued =>
           (apiCall.returned = row.access_token /\ apiCall.error = "none")

\* a call at exactly five minutes before expiry
C14_Witness ==
  /\ apiCall.op = "begin"
  /\ ~apiCall.refreshIssued
  /\ \E row \in tokens : row.expires_at - now = FIVE_MINUTES

\* C15: a refresh that succeeded leaves one row, which differs from the row stored
\* before it in access_token and expires_at only: account email, refresh token and
\* scope are the same.
C15_RefreshKeepsIdentity ==
  (apiCall.op = "complete" /\ apiCall.exchange = "ok" /\ apiCall.error = "none") =>
    /\ Cardinality(tokens) = 1
    /\ \A new \in tokens : \E old \in apiCall.before :
         /\ new.google_email = old.google_email
         /\ new.refresh_token = old.refresh_token
         /\ new.scope = old.scope

\* a refresh replaced the access token of the connected account
C15_Witness ==
  /\ apiCall.op = "complete"
  /\ apiCall.returned = "at2"
  /\ \E old \in apiCall.before : old.access_token = "at0"
  /\ \E new \in tokens : new.access_token = "at2" /\ new.expires_at = now + 3600 * 1000

C17_SingletonAtomicSave ==
  /\ Cardinality(tokens) <= 1
  /\ (storeCall.op = "save" /\ storeCall.threw) => tokens = storeCall.before

isFullWindow(request) ==
  /\ request.syncToken = "none"
  /\ request.timeMin = now
  /\ request.timeMax = now + SEVEN_DAYS

\* the step of _syncCalendar that gets 410 Gone for its incremental request: it sends
\* one further request, a full-window request without the cursor
GoneStartsOneRetry ==
  (syncCall.phase = "incremental" /\ syncObs'.status = 410) =>
    /\ syncObs'.requests = 2
    /\ isFullWindow(syncObs'.request)
    /\ syncCall'.phase = "retry"

\* the step of _syncCalendar that gets the answer to the request it sent after Gone
RetryAnswered == syncCall.phase = "retry" /\ syncCall'.phase # "retry"

RetryApplied ==
  /\ syncObs'.outcome = "returned"
  /\ events' = applyLists(events, [toUpsert |-> syncObs'.toUpsert,
                                   toRemove |-> syncObs'.toRemove])
  /\ syncObs'.nextSyncToken # "undefined" =>
       calendars'[syncCall.id].sync_token = syncObs'.nextSyncToken

C19_GoneCursorDiscarded ==
  /\ syncCall.phase = "idle" =>
       \A id \in DOMAIN calendars : calendars[id].sync_token \notin invalidated
  /\ syncObs.request.syncToken \notin invalidated

\* C20: the lists _syncCalendar builds from an answer partition its items: an item's id
\* is in toRemove exactly when its status is cancelled, a row for it is in toUpsert
\* exactly when it is not, and the lists hold nothing else.
C20_ListsPartitionItems ==
  syncObs.outcome = "returned" =>
    /\ \A i \in 1..Len(syncObs.items) :
         LET item == syncObs.items[i]
         IN /\ (item.status = "cancelled") <=> (item.id \in Range(syncObs.toRemove))
            /\ (item.status # "cancelled") <=>
                 (\E row \in Range(syncObs.toUpsert) : row.id = item.id)
    /\ Len(syncObs.toUpsert) + Len(syncObs.toRemove) = Len(syncObs.items)

\* an answer with one cancelled item and one item without a status
C20_Witness ==
  /\ syncObs.outcome = "returned"
  /\ Len(syncObs.toUpsert) = 1
  /\ Len(syncObs.toRemove) = 1
  /\ \E i \in 1..Len(syncObs.items) : syncObs.items[i].status = "undefined"

sameTimerState(a, b) ==
  /\ a.timer.armed = b.timer.armed
  /\ a.timer.ev.start = b.timer.ev.start
  /\ Cardinality(a.pending) = Cardinality(b.pending)

\* C26: at most one start timer is pending in the host, and a second call of
\* scheduleNextMeeting over the same store and clock leaves the timer as the first call
\* left it (armed or not, due at the same time, one timeout pending at most).
C26_OneStartTimer ==
  /\ Cardinality(startTimers) <= 1
  /\ \A once \in ScheduleResults(startTimers, nextMeetingTimer, events, notifiedMeetings) :
       \A twice \in ScheduleResults(once.pending, once.timer, events, notifiedMeetings) :
         sameTimerState(twice, once)

\* after the start of E1 the timer was armed again, for E2, and is the one pending timeout
C26_Witness ==
  /\ "E1" \in notifiedMeetings
  /\ nextMeetingTimer.armed
  /\ nextMeetingTimer.ev.id = "E2"
  /\ startTimers = {nextMeetingTimer.ev}

\* C29: every committed start of an event E (activeMeeting = E) is eventually followed
\* by the meeting-ended of E, which returns activeMeeting to null: activeMeeting leaves
\* E only for null, and it does leave E.
C29_StartedMeetingEnds ==
  /\ \A id \in EventIds : (activeMeeting.id = id) ~> (activeMeeting = NoEvent)
  /\ [][activeMeeting # NoEvent => activeMeeting' \in {activeMeeting, NoEvent}]_vars

\* the step sends an events request
RequestSent == syncObs'.requests > 0 /\ syncObs'.requests # syncObs.requests

isFullMode(request) == isFullWindow(request) /\ request.orderBy

isIncrementalMode(request, cursor) ==
  /\ request.syncToken = cursor
  /\ request.timeMin = Null
  /\ request.timeMax = Null
  /\ ~request.orderBy

C24_DroppedEventsRemoved ==
  (syncCall.phase = "idle" /\ syncObs.outcome = "returned"
     /\ syncObs.request.syncToken = "none") =>
    Ids(events) \subseteq
      {syncObs.items[i].id : i \in {j \in 1..Len(syncObs.items) :
                                      syncObs.items[j].status # "cancelled"}}

\* C21, as claimed: in one syncEvents pass _syncCalendar is attempted for every selected
\* calendar even when it fails for earlier ones, no such failure reaches the caller,
\* and every completed pass broadcasts gcal-events-synced and calls scheduleNextMeeting.
C21_EveryPassBroadcasts ==
  /\ syncObs.pass # "threw"
  /\ syncObs.pass = "returned" =>
       /\ syncObs.attempted = syncObs.selected
       /\ syncObs.broadcast
       /\ syncObs.rescheduled

\* C21, amended: in one syncEvents pass _syncCalendar is attempted for every selected
\* calendar even when it fails for earlier ones and no such failure reaches the caller;
\* a completed pass over at least one selected calendar broadcasts gcal-events-synced
\* and calls scheduleNextMeeting, and a pass that finds no selected calendar returns at
\* once and does neither.
C21_PassToleratesFailures ==
  /\ syncObs.pass # "threw"
  /\ syncObs.pass = "returned" =>
       /\ syncObs.attempted = syncObs.selected
       /\ (syncObs.broadcast /\ syncObs.rescheduled) <=> syncObs.selected # {}
       /\ syncObs.broadcast \/ ~syncObs.rescheduled

\* the call for C1 failed, C2 was attempted after it, and the pass completed
C21_Witness ==
  /\ syncObs.pass = "returned"
  /\ syncObs.failed = {"C1"}
  /\ syncObs.attempted = {"C1", "C2"}
  /\ syncObs.broadcast
  /\ syncObs.rescheduled

\* C23: the sync_token of a calendar changes only at the end of a _syncCalendar for that
\* calendar that fetched successfully and applied its upserts and removals; a call that
\* fails at the request or while applying leaves it, and so does every other operation.
C23_CursorOnlyAfterApply ==
  [][\A id \in DOMAIN calendars :
       /\ id \in DOMAIN calendars'
       /\ calendars'[id].sync_token # calendars[id].sync_token =>
            /\ syncCall.id = id
            /\ syncObs'.status = 200
            /\ id \notin syncObs'.failed
            /\ calendars'[id].sync_token = syncObs'.nextSyncToken
            /\ events' = applyLists(events, [toUpsert |-> syncObs'.toUpsert,
                                             toRemove |-> syncObs'.toRemove])]_vars

\* the call for C1 got an answer with cursor t1 and failed while applying its items: the
\* stored cursor is still t0
C23_Witness ==
  /\ syncObs.failed = {"C1"}
  /\ syncObs.status = 200
  /\ syncObs.outcome = "threw"
  /\ syncObs.nextSyncToken = "t1"
  /\ syncObs.toUpsert # <<>>
  /\ calendars["C1"].sync_token = "t0"

\* C25: fetchCalendars leaves is_selected and sync_token of every calendar already
\* stored as they were.
C25_FetchKeepsLocalColumns ==
  [][FetchCalendars =>
       \A id \in DOMAIN calendars :
         /\ id \in DOMAIN calendars'
         /\ calendars'[id].is_selected = calendars[id].is_selected
         /\ calendars'[id].sync_token = calendars[id].sync_token]_vars

\* the calendar list was saved over a deselected calendar with a cursor from a sync
C25_Witness ==
  \E id \in DOMAIN calendars :
    /\ calendars[id].summary = "b"
    /\ ~calendars[id].is_selected
    /\ calendars[id].sync_token = "t1"

\* the timer state is what scheduleNextMeeting leaves over the store and the set of
\* notified meetings of the next state
Rescheduled ==
  [timer |-> nextMeetingTimer', pending |-> startTimers'] \in
    ScheduleResults(startTimers, nextMeetingTimer, events', notifiedMeetings')

\* C27: when the event of the start timer has been removed from the store before the
\* timer fires, onMeetingStart shows no notification, leaves activeMeeting and
\* notifiedMeetings unchanged, and only reschedules.
C27_RemovedEventNotStarted ==
  [][(StartTimerFires /\ nextMeetingTimer.ev.id \notin Ids(events)) =>
       /\ UNCHANGED <<startNotifs, activeMeeting, notifiedMeetings, meetingEndTimer>>
       /\ Rescheduled]_vars

\* the timer armed for E1 fired after a sync pass had removed E1
C27_Witness ==
  /\ lastStart = "removed"
  /\ events = {}
  /\ startNotifs["E1"] = 0
  /\ activeMeeting = NoEvent
  /\ ~nextMeetingTimer.armed

\* a stored confirmed event that is not all-day and whose window covers now
Covering == {e \in events : e.status = "confirmed" /\ ~e.allDay /\ e.start <= now /\ now < e.end}

\* C28: when onWakeFromSleep runs while the window of a stored confirmed event that is
\* not all-day covers now and activeMeeting is null, it starts that meeting at once; in
\* every case it calls scheduleNextMeeting and starts a sync pass.
C28_WakeStartsCoveringEvent ==
  [][OnWake =>
       /\ (Covering # {} /\ activeMeeting = NoEvent) =>
            /\ activeMeeting' \in Covering
            /\ startNotifs' = [startNotifs EXCEPT ![activeMeeting'.id] = @ + 1]
            /\ activeMeeting'.id \in notifiedMeetings'
       /\ Rescheduled
       /\ syncObs'.pass \in {"running", "returned"}
       /\ getSelectedCalendars(calendars) # <<>> =>
            (syncCall'.phase # "idle" /\ syncObs'.requests = 1)]_vars

\* onWakeFromSleep started E1 and its sync pass has a request in flight
C28_Witness ==
  /\ syncObs.wake = "started"
  /\ syncObs.pass = "running"
  /\ activeMeeting.id = "E1"
  /\ startNotifs["E1"] = 1

\* C30: no start transition (notification, assignment of activeMeeting) occurs for an
\* event whose stored row is all-day or cancelled at that time, or is gone.
C30_NoStartForExcluded ==
  [][(startNotifs' # startNotifs \/ (activeMeeting' # activeMeeting /\ activeMeeting' # NoEvent)) =>
       \E row \in events :
         /\ row.id = activeMeeting'.id
         /\ ~row.allDay
         /\ row.status # "cancelled"
         /\ startNotifs' = [startNotifs EXCEPT ![row.id] = @ + 1]]_vars

\* the timer armed for E1 fired after a sync pass had made E1 an all-day event
C30_Witness ==
  /\ lastStart = "filtered"
  /\ \E row \in events : row.id = "E1" /\ row.allDay
  /\ startNotifs["E1"] = 0
  /\ activeMeeting = NoEvent

\* the audio detector is inside the cooldown that follows a dismissal
Cooling == lastDismissedAt # Null /\ now - lastDismissedAt < COOLDOWN_MS

\* C40: the audio detector emits sustained-audio-detected only at a check that is the
\* third consecutive one finding the microphone active; an inactive check resets the
\* count to zero, a check during the cooldown after dismiss counts nothing, and after an
\* emission nothing more is emitted until dismiss or stop resets the detector.
C40_EmitsAtThirdActiveCheck ==
  /\ consecutiveChecks \in 0..SUSTAINED_THRESHOLD_CHECKS
  /\ hasPrompted <=> consecutiveChecks = SUSTAINED_THRESHOLD_CHECKS
  /\ \A active \in BOOLEAN, subj \in Subjects :
       LET after == check(Arb, active, subj)
           emitted == after.outcome[AudioId] # "none"
       IN  /\ emitted <=> /\ active
                         /\ ~Cooling
                         /\ ~hasPrompted
                         /\ consecutiveChecks = SUSTAINED_THRESHOLD_CHECKS - 1
           /\ emitted => /\ after.consecutiveChecks = SUSTAINED_THRESHOLD_CHECKS
                         /\ after.hasPrompted
           /\ (~active /\ ~Cooling /\ ~hasPrompted) => after.consecutiveChecks = 0
           /\ (Cooling \/ hasPrompted) => after = Arb

\* the detector emitted again at a third active check, after a dismissal and its cooldown
C40_Witness ==
  /\ outcome[AudioId] # "none"
  /\ hasPrompted
  /\ consecutiveChecks = SUSTAINED_THRESHOLD_CHECKS
  /\ lastDismissedAt # Null
  /\ ~Cooling

\* C37: within one authorization flow at most one token exchange is performed, and so
\* the credential is saved at most once (every save is the end of an exchange), even when
\* several redirects with the flow's state and a code arrive before the first exchange
\* completes: a handler starts an exchange only if the flow has sent no token request yet.
C37_OneExchangePerFlow ==
  [][exchanges' > exchanges => tokenRequest = NoTokenRequest /\ exchanges = 0]_vars

\* C36: a signal suppressed because a calendar meeting is active does not disable its
\* source: with the microphone still in use and the meeting app still running, once no
\* calendar meeting is active a Detection is eventually created for it.
C36_SuppressedSignalReturns ==
  \A d \in DetIds : (outcome[d] = "suppressed") ~> (activeDetections[d] # "absent")

\* C34: every confirmed, non-all-day event within the lookahead window that stays stored
\* from before its start until after it eventually gets a meeting-starting notification,
\* also when two events start at the same time or one starts while another is active.
C34_EveryEventNotified ==
  \A e \in ShortRows :
    (e \in events /\ e.start > now /\ ~e.allDay /\ e.status = "confirmed")
      ~> (startNotifs[e.id] > 0 \/ e \notin events)

\* C32: any two syncs started by syncOnFocus are at least 30 seconds apart: a call made
\* less than 30 seconds after the last one that started a sync starts no sync and changes
\* no state.
C32_FocusThrottled ==
  [][SyncOnFocus =>
       /\ (mgr.focusAt # Null /\ now - mgr.focusAt < FOCUS_THROTTLE_MS) =>
            /\ ~mgr'.sync
            /\ UNCHANGED <<now, schedVars, tokens, calendars, syncInterval, intervals,
                           lastFocusSync, passes, oauthCall>>
       /\ (mgr'.sync /\ mgr.focusAt # Null) => now - mgr.focusAt >= FOCUS_THROTTLE_MS]_vars

\* a focus event 15 seconds after one that started a sync was ignored
C32_Witness ==
  /\ mgr.op = "focus"
  /\ ~mgr.sync
  /\ tokens # {}
  /\ mgr.focusAt # Null
  /\ now - mgr.focusAt = FocusStepMs

\* C31: no start-timer, end-timer or sync-interval callback lets an exception escape
\* when the persistence service or the calendar API fails inside it.
C31_CallbacksCatch == ~mgr.uncaught

\* C35: a sync pass or token refresh in flight when disconnect is called writes nothing
\* when it completes: from disconnect until a new authorization succeeds no credential
\* is stored, the event table is empty and no start timer is armed.
C35_NothingWrittenAfterDisconnect ==
  mgr.disconnected =>
    /\ tokens = {}
    /\ events = {}
    /\ ~nextMeetingTimer.armed

\* two calls of syncEvents await the answer to a request for the same calendar
SameCalendarInFlight ==
  \E p, q \in PassIds :
    /\ p # q
    /\ passes[p].call.phase # "idle"
    /\ passes[q].call.phase # "idle"
    /\ passes[p].call.id = passes[q].call.id

\* C38: no two _syncCalendar requests for the same calendar are in flight at the same
\* time, whichever of start, the interval, syncOnFocus, onWakeFromSleep,
\* setCalendarSelection and startOAuth began the passes, and no pass stores a cursor over
\* the cursor stored by a pass that began after it.
C38_OneRequestPerCalendar ==
  /\ ~SameCalendarInFlight
  /\ ~mgr.stale

\* C39: after any sequence of start, stop, startOAuth and disconnect calls at most one
\* periodic sync interval is active, and none is active after stop or disconnect.
C39_OneSyncInterval ==
  /\ Cardinality(intervals) <= 1
  /\ mgr.op \in {"stop", "disconnect"} => intervals = {}

\* C33: immediately after disconnect no credential, calendar or event is stored, no
\* start timer, end timer or periodic sync is armed, activeMeeting is null,
\* notifiedMeetings is empty and getConnectionStatus reports connected = false.
C33_DisconnectClearsAll ==
  mgr.op = "disconnect" =>
    /\ tokens = {} /\ calendars = <<>> /\ events = {}
    /\ ~nextMeetingTimer.armed /\ startTimers = {}
    /\ ~meetingEndTimer.armed
    /\ intervals = {}
    /\ activeMeeting = NoEvent
    /\ notifiedMeetings = {}
    /\ ~getConnectionStatus.connected

====
